---- MODULE Spec2Model ----
(***************************************************************************)
(* Donation tool: the Subscriptions orchestrator (service/subscriptions.ts) *)
(* run as interleaved async calls over the repositories, the payment        *)
(* gateway, the redeem engine and the event source; and the Order and       *)
(* Subscription entities of domain/payment.ts.                              *)
(*                                                                          *)
(* An async method is a process: every `await` is a point where other       *)
(* calls may run.  One action is the completion of the awaited operation    *)
(* together with the synchronous code that follows it up to the next await. *)
(***************************************************************************)
EXTENDS Integers, Sequences, FiniteSets, Bags, TLC

\* Number of orchestrator calls in one behaviour.
MaxCalls == 2
\* Number of Order entities in the entity-level specification.
MaxOrders == 2
MaxRefs == 2
MaxPersist == 3
MaxRedeems == 3
\* Number of events the Discord client emits in one behaviour.
MaxEvents == 2

CallIds == 1..MaxCalls
OrderSlots == 1..MaxOrders

VARIABLES
    subs,         \* SubscriptionsRepository: the persisted Subscriptions
    orders,       \* OrderRepository: the persisted Orders
    redeemCalls,  \* bag of the redeem engine's invocations
    events,       \* bag of the events emitted on the EventSource
    gwCalls,      \* bag of the payment gateway's invocations
    pc,           \* per call: the await it is suspended at
    call,         \* per call: the method and its arguments
    loc,          \* per call: its local variables
    res,          \* per call: how it settled
    ents,         \* Order entities held in memory (entity-level specification)
    entLast,      \* the last Order entity operation and its outcome
    sent,         \* a Subscription entity held in memory (entity-level specification)
    sentLast,     \* the last Subscription entity operation and its outcome
    refs,         \* Reference objects held in memory
    refOut,       \* per Reference: what asString() returned
    catalogue,    \* PayPal's catalogue: the products and billing plans it holds
    chains,       \* per gateway and package: the first and the latest SubscriptionPlan
    seq,          \* how many persistSubscription calls have been made
    persistLast,  \* the last persistSubscription call and its result
    eorders,      \* the paid Orders handed to the redeem engine
    grants,       \* bag of the perks the redeem engine has granted
    ecalls,       \* per Order: how often the engine ran for it, and when first to the end
    clock,        \* the time, advanced by every run of the engine
    packages,     \* config.packages: the Package objects the controllers share
    sessions,     \* per browser session: req.session.selectedPackage
    httpLast,     \* the last selectPackage request and what the response saw
    yaml,         \* the content of config.yml assigned onto the YamlAppConfig
    initialize,   \* the promise initialize() returned
    inner,        \* the promise initialize() awaits on line 86
    executor,     \* the promise of the async executor passed to that promise
    login,        \* the promise client.login(token) returned
    emitted,      \* the events the Discord client has emitted, in order
    notifier      \* this._notifier

svcVars == <<subs, orders, redeemCalls, events, gwCalls, pc, call, loc, res>>
entVars == <<ents, entLast>>
subVars == <<sent, sentLast>>
refVars == <<refs, refOut>>
planVars == <<catalogue, chains, seq, persistLast>>
engVars == <<eorders, grants, ecalls, clock>>
webVars == <<packages, sessions, httpLast>>
cfgVars == <<yaml, initialize, inner, executor, login, emitted, notifier>>
auxVars == <<subVars, refVars, planVars, engVars, webVars, cfgVars>>
vars == <<svcVars, entVars, auxVars>>

----------------------------------------------------------------------------
\* Values

Undefined == "undefined"
NullDate == "null"
Now == "date"
Nothing == [null |-> TRUE]          \* null / undefined object reference

User(steam, discord) == [steam |-> [id |-> steam], discord |-> [id |-> discord]]
Users == {User("st1", "d1"), User("st2", "d2")}
NoUser == User("-", "-")

Packages == {"P1", "P2", "P3"}
PaymentIds == {"AG1", "AG2", "AGX"}
TransactionIds == {"TX1", "TX2"}
SubscriptionIds == {"s1", "s2", "sX"}

\* A JavaScript argument with its runtime type: property reads depend on it.
JsUser(u) == [t |-> "user", v |-> u]
JsString(s) == [t |-> "string", s |-> s]

----------------------------------------------------------------------------
\* domain/payment.ts: Reference, Order

Reference(steamId, discordId, p) == [steamId |-> steamId, discordId |-> discordId, p |-> p]

\* JavaScript's ToBoolean on a string | null: null and "" are falsy.
Truthy(v) == v # Nothing /\ v.s # ""

\* A template literal's conversion of a string | null to a string.
TemplateString(v) == IF v = Nothing THEN "null" ELSE v.s

Reference_asString_DiscordFirst(r) ==
    TemplateString(IF Truthy(r.discordId) THEN r.discordId ELSE r.steamId)
        \o "#" \o ToString(r.p.id)

\* Reference.asString: `${this.steamId || this.discordId}#${this.p.id}`
Reference_asString(r) ==
    TemplateString(IF Truthy(r.steamId) THEN r.steamId ELSE r.discordId)
        \o "#" \o ToString(r.p.id)

OrderStatus_CREATED == 0
OrderStatus_PAID == 1

OrderPayment(id, transactionId) == [id |-> id, transactionId |-> transactionId]

NewOrder(id, reference, customMessage, redeemedAt, status, payment) ==
    [id |-> id, reference |-> reference, customMessage |-> customMessage,
     redeemedAt |-> redeemedAt, status |-> status, payment |-> payment]

Order_create(id, payment, reference) ==
    NewOrder(id, reference, "null", NullDate, OrderStatus_CREATED, payment)

Order_createDeferred(id, reference) ==
    NewOrder(id, reference, "null", NullDate, OrderStatus_CREATED, Nothing)

Order_paymentIntent_Rebind(o, payment) ==
    [ok |-> TRUE, order |-> [o EXCEPT !.payment = payment]]

\* paymentIntent: throws when a payment is bound, else binds it.
Order_paymentIntent(o, payment) ==
    IF o.payment # Nothing
    THEN [ok |-> FALSE, order |-> o]
    ELSE [ok |-> TRUE, order |-> [o EXCEPT !.payment = payment]]

Order_pay_Redeems(o, transactionId) ==
    IF o.payment = Nothing
    THEN [ok |-> FALSE, order |-> o]
    ELSE [ok |-> TRUE,
          order |-> [o EXCEPT !.payment.transactionId = transactionId,
                              !.status = OrderStatus_PAID,
                              !.redeemedAt = Now]]

Order_pay_NoGuard(o, transactionId) ==
    IF o.payment = Nothing
    THEN [ok |-> TRUE, order |-> [o EXCEPT !.status = OrderStatus_PAID]]
    ELSE [ok |-> TRUE,
          order |-> [o EXCEPT !.payment.transactionId = transactionId,
                              !.status = OrderStatus_PAID]]

Order_pay_OnlyOnce(o, transactionId) ==
    IF o.payment = Nothing \/ o.status = OrderStatus_PAID
    THEN [ok |-> FALSE, order |-> o]
    ELSE [ok |-> TRUE,
          order |-> [o EXCEPT !.payment.transactionId = transactionId,
                              !.status = OrderStatus_PAID]]

Order_pay_NoStamp(o, transactionId) ==
    IF o.payment = Nothing
    THEN [ok |-> FALSE, order |-> o]
    ELSE [ok |-> TRUE, order |-> [o EXCEPT !.status = OrderStatus_PAID]]

Order_pay_Toggle(o, transactionId) ==
    IF o.payment = Nothing
    THEN [ok |-> FALSE, order |-> o]
    ELSE [ok |-> TRUE,
          order |-> [o EXCEPT !.payment.transactionId = transactionId,
                              !.status = 1 - o.status]]

\* pay: throws when no payment is bound, else stamps the transaction, PAID.
Order_pay(o, transactionId) ==
    IF o.payment = Nothing
    THEN [ok |-> FALSE, order |-> o]
    ELSE [ok |-> TRUE,
          order |-> [o EXCEPT !.payment.transactionId = transactionId,
                              !.status = OrderStatus_PAID]]

----------------------------------------------------------------------------
\* domain/payment.ts: SubscriptionPlan, Subscription

SubscriptionPlan(id, basePackage, productId, planId) ==
    [id |-> id, basePackage |-> basePackage,
     payment |-> [productId |-> productId, planId |-> planId]]

NewSubscription(id, planId, paymentId, steamId, discordId, state) ==
    [id |-> id, planId |-> planId, payment |-> [id |-> paymentId],
     user |-> [steamId |-> steamId, discordId |-> discordId], state |-> state]

\* Subscription.create(plan, user): reads user.steam.id and user.discord.id,
\* which throws a TypeError when `user` is not a User object.
Subscription_create(id, plan, user) ==
    IF user.t = "user"
    THEN [ok |-> TRUE,
          sub |-> NewSubscription(id, plan.id, Undefined,
                                  user.v.steam.id, user.v.discord.id, "PENDING")]
    ELSE [ok |-> FALSE, sub |-> Nothing]

Subscription_cancel_Unbind(s) == [s EXCEPT !.state = "CANCELLED", !.payment.id = Undefined]

Subscription_cancel(s) == [s EXCEPT !.state = "CANCELLED"]

Subscription_agreeBilling(s, paymentId) == [s EXCEPT !.payment.id = paymentId]

\* Subscription.pay: the paid Order of the billing cycle; the state is ACTIVE.
Subscription_pay(s, orderId, transactionId, provider, p) ==
    [order |-> Order_pay(
                   Order_create(orderId,
                                [id |-> s.payment.id, transactionId |-> transactionId,
                                 provider |-> provider],
                                Reference(s.user.steamId, s.user.discordId, p)),
                   transactionId).order,
     sub |-> [s EXCEPT !.state = "ACTIVE"]]

\* config.app.publicUrl: the origin the links are resolved against
PublicUrl == "https://donate.example"

Subscription_abortLink_WhileActive(s) ==
    IF s.state \notin {"PENDING", "ACTIVE"}
    THEN [ok |-> FALSE, value |-> "SubscriptionNotPending"]
    ELSE [ok |-> TRUE, value |-> PublicUrl \o "/subscriptions/" \o s.id \o "/abort"]

\* Subscription.abortLink: throws unless the state is PENDING.
Subscription_abortLink(s) ==
    IF s.state # "PENDING"
    THEN [ok |-> FALSE, value |-> "SubscriptionNotPending"]
    ELSE [ok |-> TRUE, value |-> PublicUrl \o "/subscriptions/" \o s.id \o "/abort"]

Subscription_isActive_OnlyActive(s) == s.state = "ACTIVE"

Subscription_isActive(s) == s.state \in {"PENDING", "ACTIVE"}

RedeemTarget(steamId, discordId) == [steamId |-> steamId, discordId |-> discordId]

----------------------------------------------------------------------------
\* Repositories (persistence boundary).  A find hands out a copy of the
\* stored record; a save replaces the stored record of the same id.

PlanStore ==
    {SubscriptionPlan("pl1", "P1", "DONATE-P1", "PP1"),
     SubscriptionPlan("pl2", "P2", "DONATE-P2", "PP2")}

SubscriptionPlans_findByPackage(p) ==
    IF \E pl \in PlanStore : pl.basePackage = p
    THEN CHOOSE pl \in PlanStore : pl.basePackage = p
    ELSE Nothing

SubscriptionPlans_find(planId) ==
    IF \E pl \in PlanStore : pl.id = planId
    THEN CHOOSE pl \in PlanStore : pl.id = planId
    ELSE Nothing

Subscriptions_find(store, id) ==
    IF \E s \in store : s.id = id
    THEN CHOOSE s \in store : s.id = id
    ELSE Nothing

Subscriptions_findByPayment(store, paymentId) ==
    {s \in store : s.payment.id = paymentId}

Subscriptions_save(store, s) == {x \in store : x.id # s.id} \cup {s}

Orders_save(store, o) == {x \in store : x.id # o.id} \cup {o}

Orders_findByPaymentOrder(store, paymentId) ==
    {o \in store : o.payment # Nothing /\ o.payment.id = paymentId}

\* Subscriptions a store may hold when the service starts: each was created
\* for a user and a plan and bound to its own billing agreement.
StoredSubscription(id, planId, paymentId, u) ==
    Subscription_agreeBilling(
        Subscription_create(id, [id |-> planId], JsUser(u)).sub, paymentId)

InitialSubscriptions ==
    {StoredSubscription("s1", "pl1", "AG1", User("st1", "d1")),
     StoredSubscription("s2", "pl2", "AG2", User("st2", "d2"))}

----------------------------------------------------------------------------
\* Calls

NoCall == [op |-> "none", p |-> "-", user |-> NoUser, paymentId |-> "-",
           transactionId |-> "-", id |-> "-"]
NoLocals == [sub |-> Nothing, plan |-> Nothing, order |-> Nothing,
             result |-> Nothing, history |-> {}, readState |-> "-"]
Pending == [status |-> "pending", err |-> "-"]
Returned == [status |-> "ok", err |-> "-"]
Thrown(err) == [status |-> "error", err |-> err]

\* v4(): an id no other call draws
OrderId(c) == "order-" \o ToString(c)
SubscriptionId(c) == "sub-" \o ToString(c)
AgreementId(c) == "agreement-" \o ToString(c)

NoOperation == [op |-> "none", slot |-> 0, ok |-> TRUE, paidBefore |-> FALSE,
                arg |-> Nothing]

Gateways == {"paypal", "fake"}
PackageIds == {1, 2}
NoPersist == [impl |-> "none", p |-> Nothing, given |-> Nothing, result |-> Nothing,
              requests |-> <<>>]

NeverRedeemed == [runs |-> 0, completed |-> 0, firstAt |-> NullDate]

RefSlots == 1..MaxRefs
NotCalled == "-"

NoSubscriptionOperation == [op |-> "none", ok |-> TRUE, value |-> "-"]

\* A string of a request body or of config.yml is the sequence of its characters.
Absent == <<>>                      \* a body field that is missing or empty

PriceType_FIXED == "FIXED"
PriceType_VARIABLE == "VARIABLE"
Price(type, amount) == [type |-> type, amount |-> amount]
Package(id, price) == [id |-> id, price |-> price]

\* config.packages as config.yml has it
ConfiguredPackages ==
    <<Package(1, Price(PriceType_FIXED, <<"1", "0">>)),
      Package(2, Price(PriceType_VARIABLE, <<"5">>))>>

Browsers == {"b1", "b2"}
NoSession == [selectedPackage |-> Nothing]
NoError == [name |-> "-"]
NoRequest == [browser |-> "-", body |-> Nothing, found |-> FALSE, stored |-> FALSE,
              redirects |-> <<>>, error |-> NoError]

Init ==
    /\ subs \in SUBSET InitialSubscriptions
    /\ orders = {}
    /\ redeemCalls = EmptyBag
    /\ events = EmptyBag
    /\ gwCalls = EmptyBag
    /\ pc = [c \in CallIds |-> "idle"]
    /\ call = [c \in CallIds |-> NoCall]
    /\ loc = [c \in CallIds |-> NoLocals]
    /\ res = [c \in CallIds |-> Pending]
    /\ ents = [i \in OrderSlots |-> Nothing]
    /\ entLast = NoOperation
    /\ sent = Nothing
    /\ sentLast = NoSubscriptionOperation
    /\ refs = [i \in RefSlots |-> Nothing]
    /\ refOut = [i \in RefSlots |-> NotCalled]
    /\ catalogue = [products |-> {}, plans |-> {}]
    /\ chains = [k \in Gateways \X PackageIds |-> Nothing]
    /\ seq = 0
    /\ persistLast = NoPersist
    /\ eorders = [i \in OrderSlots |-> Nothing]
    /\ grants = EmptyBag
    /\ ecalls = [i \in OrderSlots |-> NeverRedeemed]
    /\ clock = 0
    /\ packages = ConfiguredPackages
    /\ sessions = [b \in Browsers |-> NoSession]
    /\ httpLast = NoRequest
    /\ yaml = Nothing
    /\ initialize = NotCalled
    /\ inner = NotCalled
    /\ executor = NotCalled
    /\ login = NotCalled
    /\ emitted = <<>>
    /\ notifier = NotCalled

\* Calls are numbered in the order they arrive.
CanStart(c) == pc[c] = "idle" /\ (IF c = 1 THEN TRUE ELSE pc[c - 1] # "idle")

Start(c, request, at) ==
    /\ call' = [call EXCEPT ![c] = request]
    /\ pc' = [pc EXCEPT ![c] = at]
    /\ UNCHANGED <<subs, orders, redeemCalls, events, gwCalls, loc, res, entVars, auxVars>>

\* The call settles: it returns, or an error propagates to the caller.
Settle(c, outcome) ==
    /\ pc' = [pc EXCEPT ![c] = "done"]
    /\ res' = [res EXCEPT ![c] = outcome]

----------------------------------------------------------------------------
\* Payment gateway: the PayPal adapter and the fake adapter

JsPlan(pl) == [t |-> "plan", v |-> pl]

\* subscribe(sub, plan, user): the outcomes of a call with the positional
\* arguments `args`.  The PayPal adapter reads plan.payment.planId from its
\* second argument before it sends the request; the fake adapter reads none.
Payment_subscribe(impl, args, c) ==
    IF impl = "fake"
    THEN {[ok |-> TRUE, err |-> "-",
           value |-> [id |-> AgreementId(c),
                      approvalLink |-> "https://example.com/approveSubscription"]]}
    ELSE IF Len(args) >= 2 /\ args[2].t = "plan"
         THEN {[ok |-> TRUE, err |-> "-",
                value |-> [id |-> AgreementId(c), approvalLink |-> "approve"]],
               [ok |-> FALSE, err |-> "GatewayFailure", value |-> Nothing]}
         ELSE {[ok |-> FALSE, err |-> "TypeError", value |-> Nothing]}

\* cancelSubscription(subscription): the request succeeds or is rejected
\* (PayPal); the fake adapter always resolves.
Payment_cancelSubscription(impl) ==
    IF impl = "fake" THEN {TRUE} ELSE {TRUE, FALSE}

GatewayCall(op, arg, c, ok) == [op |-> op, arg |-> arg, by |-> c, ok |-> ok]

\* asProductId: `DONATE-${p.id}`
asProductId(p) == "DONATE-" \o ToString(p.id)

\* v4() and the ids PayPal gives to the plans it creates, for the n-th call
PlanUuid(n) == "plan-" \o ToString(n)
FakeUuid(kind, n) == "uuid-" \o kind \o "-" \o ToString(n)
PaypalPlanId(n) == "P-" \o ToString(n)

\* GetProductRequest: 200 with the product when PayPal holds it
ProductFound(pv, p) == \E pr \in pv.products : pr.id = asProductId(p)

\* A request sent to PayPal
Request(req, id) == [req |-> req, id |-> id]

PersistProduct_CreateOnly(pv, p) ==
    LET product == [id |-> asProductId(p), name |-> p.name] IN
    [products |-> {pr \in pv.products : pr.id # product.id} \cup {product},
     requests |-> <<Request("GetProduct", asProductId(p)),
                    Request("CreateProduct", product.id)>>,
     result |-> product]

\* product / updateProduct / createProduct: PayPal's products afterwards, the
\* requests sent, and the product the last response carries
PersistProduct(pv, p) ==
    LET product == [id |-> asProductId(p), name |-> p.name] IN
    IF ProductFound(pv, p)
    THEN LET products == {IF pr.id = product.id THEN product ELSE pr :
                             pr \in pv.products} IN
         [products |-> products,
          requests |-> <<Request("GetProduct", asProductId(p)),
                         Request("UpdateProduct", asProductId(p)),
                         Request("GetProduct", asProductId(p))>>,
          result |-> CHOOSE pr \in products : pr.id = asProductId(p)]
    ELSE [products |-> pv.products \cup {product},
          requests |-> <<Request("GetProduct", asProductId(p)),
                         Request("CreateProduct", product.id)>>,
          result |-> product]

\* createPlan: a plan of the package's product at the package's price
createPlan(pv, p, n) ==
    [id |-> PaypalPlanId(n), product_id |-> asProductId(p), price |-> p.price]

\* plan(id): GetPlanRequest, the plan PayPal holds under that id
GetPlan(plans, id) == CHOOSE pl \in plans : pl.id = id

\* updatePlan: the plan is re-priced under its own id; PayPal's plans afterwards
updatePlan(pv, plan, p) ==
    {IF pl.id = plan.id THEN [pl EXCEPT !.price = p.price] ELSE pl : pl \in pv.plans}

\* sp?.payment.planId is truthy
CarriesPlanId(sp) == sp # Nothing /\ sp.payment.planId \notin {"", Undefined}

PaypalPayment_persistSubscription_AlwaysCreate(pv, p, sp, n) ==
    LET product == PersistProduct(pv, p)
        plan == createPlan(pv, p, n) IN
    [provider |-> [products |-> product.products, plans |-> pv.plans \cup {plan}],
     requests |-> product.requests,
     plan |-> SubscriptionPlan(IF sp = Nothing THEN PlanUuid(n) ELSE sp.id,
                               p, product.result.id, plan.id)]

\* PaypalPayment.persistSubscription(p, sp?), the n-th call
PaypalPayment_persistSubscription(pv, p, sp, n) ==
    LET product == PersistProduct(pv, p) IN
    IF CarriesPlanId(sp)
    THEN LET plans == updatePlan(pv, GetPlan(pv.plans, sp.payment.planId), p)
             plan == GetPlan(plans, sp.payment.planId) IN
         [provider |-> [products |-> product.products, plans |-> plans],
          requests |-> product.requests,
          plan |-> SubscriptionPlan(sp.id, p, product.result.id, plan.id)]
    ELSE LET plan == createPlan(pv, p, n) IN
         [provider |-> [products |-> product.products,
                        plans |-> pv.plans \cup {plan}],
          requests |-> product.requests,
          plan |-> SubscriptionPlan(PlanUuid(n), p, product.result.id, plan.id)]

\* FakePayment.persistSubscription(p, plan?): SubscriptionPlan.create(p, v4(), v4())
FakePayment_persistSubscription(pv, p, sp, n) ==
    [provider |-> pv,
     requests |-> <<>>,
     plan |-> SubscriptionPlan(PlanUuid(n), p, FakeUuid("product", n), FakeUuid("plan", n))]

persistSubscription(impl, pv, p, sp, n) ==
    IF impl = "paypal"
    THEN PaypalPayment_persistSubscription(pv, p, sp, n)
    ELSE FakePayment_persistSubscription(pv, p, sp, n)

----------------------------------------------------------------------------
\* Subscriptions.subscribe(p, user)

SubscribeCall(c, p, user) ==
    /\ CanStart(c)
    /\ Start(c, [NoCall EXCEPT !.op = "subscribe", !.p = p, !.user = user],
          "subscribe_findByPackage")

\* line 30 resolves; line 31 calls the gateway
SubscribeFindByPackage_Undefined(c) ==
    /\ pc[c] = "subscribe_findByPackage"
    /\ pc' = [pc EXCEPT ![c] = "subscribe_paymentSubscribe"]
    /\ loc' = [loc EXCEPT ![c].plan = SubscriptionPlans_findByPackage(call[c].p)]
    /\ UNCHANGED <<subs, orders, redeemCalls, events, gwCalls, call, res, entVars, auxVars>>

SubscribeFindByPackage(c) ==
    /\ pc[c] = "subscribe_findByPackage"
    /\ LET plan == SubscriptionPlans_findByPackage(call[c].p) IN
       IF plan = Nothing
       THEN /\ Settle(c, Thrown("PlanNotFound"))
            /\ UNCHANGED loc
       ELSE /\ pc' = [pc EXCEPT ![c] = "subscribe_paymentSubscribe"]
            /\ loc' = [loc EXCEPT ![c].plan = plan]
            /\ UNCHANGED res
    /\ UNCHANGED <<subs, orders, redeemCalls, events, gwCalls, call, entVars, auxVars>>

\* line 31 resolves; line 33 builds the Subscription and calls save
SubscribePaymentSubscribe(c) ==
    /\ pc[c] = "subscribe_paymentSubscribe"
    /\ \E impl \in Gateways :
       \E r \in Payment_subscribe(impl, <<JsPlan(loc[c].plan), JsUser(call[c].user)>>, c) :
         /\ gwCalls' = gwCalls (+) SetToBag({GatewayCall("subscribe", loc[c].plan.id, c, r.ok)})
         /\ IF ~r.ok
            THEN /\ Settle(c, Thrown(r.err))
                 /\ UNCHANGED loc
            ELSE LET created == Subscription_create(SubscriptionId(c), loc[c].plan,
                                                    JsString(r.value.id)) IN
                 IF ~created.ok
                 THEN /\ Settle(c, Thrown("TypeError"))
                      /\ loc' = [loc EXCEPT ![c].result = r.value]
                 ELSE /\ pc' = [pc EXCEPT ![c] = "subscribe_save"]
                      /\ loc' = [loc EXCEPT ![c].result = r.value, ![c].sub = created.sub]
                      /\ UNCHANGED res
    /\ UNCHANGED <<subs, orders, redeemCalls, events, call, entVars, auxVars>>

----------------------------------------------------------------------------
\* Subscriptions.redeemSubscriptionPayment(paymentId, transactionId)

RedeemCall(c, paymentId, transactionId) ==
    /\ CanStart(c)
    /\ Start(c, [NoCall EXCEPT !.op = "redeemSubscriptionPayment",
                            !.paymentId = paymentId, !.transactionId = transactionId],
          "redeem_findByPayment")

RedeemFindByPayment_OrderFirst(c) ==
    /\ pc[c] = "redeem_findByPayment"
    /\ LET found == Subscriptions_findByPayment(subs, call[c].paymentId) IN
       IF found = {}
       THEN /\ Settle(c, Thrown("SubscriptionNotFound"))
            /\ orders' = Orders_save(orders,
                   Order_create(OrderId(c),
                                OrderPayment(call[c].paymentId, call[c].transactionId),
                                Reference("null", "null", "null")))
            /\ UNCHANGED loc
       ELSE \E sub \in found :
            /\ pc' = [pc EXCEPT ![c] = "redeem_findPlan"]
            /\ loc' = [loc EXCEPT ![c].sub = sub, ![c].readState = sub.state]
            /\ UNCHANGED <<res, orders>>
    /\ UNCHANGED <<subs, redeemCalls, events, gwCalls, call, entVars, auxVars>>

\* line 39 resolves; line 40 looks the plan up
RedeemFindByPayment(c) ==
    /\ pc[c] = "redeem_findByPayment"
    /\ LET found == Subscriptions_findByPayment(subs, call[c].paymentId) IN
       IF found = {}
       THEN /\ Settle(c, Thrown("SubscriptionNotFound"))
            /\ UNCHANGED loc
       ELSE \E sub \in found :
            /\ pc' = [pc EXCEPT ![c] = "redeem_findPlan"]
            /\ loc' = [loc EXCEPT ![c].sub = sub, ![c].readState = sub.state]
            /\ UNCHANGED res
    /\ UNCHANGED <<subs, orders, redeemCalls, events, gwCalls, call, entVars, auxVars>>

RedeemFindPlan_OrderFirst(c) ==
    /\ pc[c] = "redeem_findPlan"
    /\ LET plan == SubscriptionPlans_find(loc[c].sub.planId) IN
       /\ pc' = [pc EXCEPT ![c] = "redeem_save"]
       /\ loc' = [loc EXCEPT ![c].plan = plan, ![c].sub.state = "ACTIVE"]
       /\ orders' = Orders_save(orders,
                        Order_create(OrderId(c),
                            OrderPayment(call[c].paymentId, call[c].transactionId),
                            Reference(loc[c].sub.user.steamId,
                                      loc[c].sub.user.discordId, plan.basePackage)))
    /\ UNCHANGED <<subs, redeemCalls, events, gwCalls, call, res, entVars, auxVars>>

\* line 40 resolves; line 42 assigns the state, line 43 calls save
RedeemFindPlan(c) ==
    /\ pc[c] = "redeem_findPlan"
    /\ LET plan == SubscriptionPlans_find(loc[c].sub.planId) IN
       IF plan = Nothing
       THEN /\ Settle(c, Thrown("PlanNotFound"))
            /\ UNCHANGED loc
       ELSE /\ pc' = [pc EXCEPT ![c] = "redeem_save"]
            /\ loc' = [loc EXCEPT ![c].plan = plan, ![c].sub.state = "ACTIVE"]
            /\ UNCHANGED res
    /\ UNCHANGED <<subs, orders, redeemCalls, events, gwCalls, call, entVars, auxVars>>

\* line 40 rejects (the plan repository fails): the error propagates
RedeemFindPlanFails(c) ==
    /\ pc[c] = "redeem_findPlan"
    /\ Settle(c, Thrown("PlanLookupFailed"))
    /\ UNCHANGED <<subs, orders, redeemCalls, events, gwCalls, call, loc, entVars, auxVars>>

\* line 43 rejects (the subscription repository fails): nothing is written,
\* the error propagates; line 42's assignment stays in the call's own object
RedeemSaveFails(c) ==
    /\ pc[c] = "redeem_save"
    /\ Settle(c, Thrown("SaveFailed"))
    /\ UNCHANGED <<subs, orders, redeemCalls, events, gwCalls, call, loc, entVars, auxVars>>

RedeemOrder_Unpaid(c) ==
    Order_create(OrderId(c),
                 OrderPayment(call[c].paymentId, Undefined),
                 Reference(loc[c].sub.user.steamId, loc[c].sub.user.discordId,
                           loc[c].plan.basePackage))

\* lines 44-48: the Order of this billing cycle, paid
RedeemOrder(c) ==
    Order_pay(
        Order_create(OrderId(c),
                     OrderPayment(call[c].paymentId, call[c].transactionId),
                     Reference(loc[c].sub.user.steamId, loc[c].sub.user.discordId,
                               loc[c].plan.basePackage)),
        call[c].transactionId).order

\* line 43 resolves; lines 44-48 build the Order, line 49 calls save
RedeemSave(c) ==
    /\ pc[c] = "redeem_save"
    /\ subs' = Subscriptions_save(subs, loc[c].sub)
    /\ loc' = [loc EXCEPT ![c].order = RedeemOrder(c)]
    /\ pc' = [pc EXCEPT ![c] = "redeem_saveOrder"]
    /\ UNCHANGED <<orders, redeemCalls, events, gwCalls, call, res, entVars, auxVars>>

\* line 49 resolves; line 50 builds the target, line 51 calls the engine
RedeemSaveOrder(c) ==
    /\ pc[c] = "redeem_saveOrder"
    /\ orders' = Orders_save(orders, loc[c].order)
    /\ pc' = [pc EXCEPT ![c] = "redeem_redeem"]
    /\ UNCHANGED <<subs, redeemCalls, events, gwCalls, call, loc, res, entVars, auxVars>>

\* The perks a package carries
Perks(p) == IF p = "P1" THEN {"priority-queue"} ELSE {"priority-queue", "discord-role"}

Grant(order, target, perk) == [order |-> order.id, target |-> target, perk |-> perk]

Redeem_grant_Stacking(g, order, target, perks) ==
    g (+) SetToBag({Grant(order, target, perk) : perk \in perks})

\* The engine grants a perk of an Order unless it has granted it for that Order.
Redeem_grant(g, order, target, perks) ==
    g (+) SetToBag({Grant(order, target, perk) :
                      perk \in {pk \in perks : ~BagIn(Grant(order, target, pk), g)}})

\* The engine stamps redeemedAt when it first redeems the Order to the end.
Redeem_stamp(order, at) ==
    IF order.redeemedAt = NullDate THEN [order EXCEPT !.redeemedAt = at] ELSE order

\* The redeem engine stamps the Order it redeemed.
RedeemPackage_redeem(order) == [order EXCEPT !.redeemedAt = Now]

RedeemInvocation(c) ==
    [order |-> loc[c].order.id,
     target |-> RedeemTarget(loc[c].sub.user.steamId, loc[c].sub.user.discordId)]

RedeemRedeem_Twice(c) ==
    /\ pc[c] = "redeem_redeem"
    /\ redeemCalls' = redeemCalls (+) SetToBag({RedeemInvocation(c)})
                                  (+) SetToBag({RedeemInvocation(c)})
    /\ LET redeemed == RedeemPackage_redeem(loc[c].order) IN
       /\ orders' = Orders_save(orders, redeemed)
       /\ loc' = [loc EXCEPT ![c].order = redeemed]
       /\ events' = events (+) SetToBag({[name |-> "successfulSubscriptionExecution",
                                          target |-> RedeemInvocation(c).target,
                                          order |-> redeemed.id]})
    /\ Settle(c, Returned)
    /\ UNCHANGED <<subs, gwCalls, call, entVars, auxVars>>

\* line 51 resolves; line 52 emits the event, line 54 returns the Order
RedeemRedeem(c) ==
    /\ pc[c] = "redeem_redeem"
    /\ redeemCalls' = redeemCalls (+) SetToBag({RedeemInvocation(c)})
    /\ LET redeemed == RedeemPackage_redeem(loc[c].order) IN
       /\ orders' = Orders_save(orders, redeemed)
       /\ loc' = [loc EXCEPT ![c].order = redeemed]
       /\ events' = events (+) SetToBag({[name |-> "successfulSubscriptionExecution",
                                          target |-> RedeemInvocation(c).target,
                                          order |-> redeemed.id]})
    /\ Settle(c, Returned)
    /\ UNCHANGED <<subs, gwCalls, call, entVars, auxVars>>

\* line 51 resolves; events.emit on line 52 throws (a listener fails): no
\* handler surrounds it, so the error propagates out of the call
RedeemEmitFails(c) ==
    /\ pc[c] = "redeem_redeem"
    /\ redeemCalls' = redeemCalls (+) SetToBag({RedeemInvocation(c)})
    /\ LET redeemed == RedeemPackage_redeem(loc[c].order) IN
       /\ orders' = Orders_save(orders, redeemed)
       /\ loc' = [loc EXCEPT ![c].order = redeemed]
       /\ events' = events (+) SetToBag({[name |-> "successfulSubscriptionExecution",
                                          target |-> RedeemInvocation(c).target,
                                          order |-> redeemed.id]})
    /\ Settle(c, Thrown("EmitFailure"))
    /\ UNCHANGED <<subs, gwCalls, call, entVars, auxVars>>

RedeemRedeemFails_Emits(c) ==
    /\ pc[c] = "redeem_redeem"
    /\ redeemCalls' = redeemCalls (+) SetToBag({RedeemInvocation(c)})
    /\ events' = events (+) SetToBag({[name |-> "successfulSubscriptionExecution",
                                       target |-> RedeemInvocation(c).target,
                                       order |-> loc[c].order.id]})
    /\ Settle(c, Thrown("RedeemFailure"))
    /\ UNCHANGED <<subs, orders, gwCalls, call, loc, entVars, auxVars>>

\* line 51 rejects: the error propagates
RedeemRedeemFails(c) ==
    /\ pc[c] = "redeem_redeem"
    /\ redeemCalls' = redeemCalls (+) SetToBag({RedeemInvocation(c)})
    /\ Settle(c, Thrown("RedeemFailure"))
    /\ UNCHANGED <<subs, orders, events, gwCalls, call, loc, entVars, auxVars>>

----------------------------------------------------------------------------
\* Subscriptions.subscription(id, forUser): the ownership-checked lookup

subscription_Forbidden(store, id, forUser) ==
    LET found == Subscriptions_find(store, id) IN
    IF found = Nothing
    THEN [ok |-> FALSE, err |-> "SubscriptionNotFound", sub |-> Nothing]
    ELSE IF found.user.discordId # forUser.discord.id
         THEN [ok |-> FALSE, err |-> "Forbidden", sub |-> Nothing]
         ELSE [ok |-> TRUE, err |-> "-", sub |-> found]

subscription(store, id, forUser) ==
    LET found == Subscriptions_find(store, id) IN
    IF found = Nothing \/ found.user.discordId # forUser.discord.id
    THEN [ok |-> FALSE, err |-> "SubscriptionNotFound", sub |-> Nothing]
    ELSE [ok |-> TRUE, err |-> "-", sub |-> found]

----------------------------------------------------------------------------
\* Subscriptions.cancel(id, forUser)

CancelCall(c, id, forUser) ==
    /\ CanStart(c)
    /\ Start(c, [NoCall EXCEPT !.op = "cancel", !.id = id, !.user = forUser],
          "cancel_subscription")

\* line 78 resolves; line 79 calls the gateway
CancelSubscription(c) ==
    /\ pc[c] = "cancel_subscription"
    /\ LET r == subscription(subs, call[c].id, call[c].user) IN
       IF ~r.ok
       THEN /\ Settle(c, Thrown(r.err))
            /\ UNCHANGED loc
       ELSE /\ pc' = [pc EXCEPT ![c] = "cancel_cancelSubscription"]
            /\ loc' = [loc EXCEPT ![c].sub = r.sub, ![c].readState = r.sub.state]
            /\ UNCHANGED res
    /\ UNCHANGED <<subs, orders, redeemCalls, events, gwCalls, call, entVars, auxVars>>

CancelCancelSubscription_Retry(c) ==
    /\ pc[c] = "cancel_cancelSubscription"
    /\ \E impl \in Gateways : \E ok \in Payment_cancelSubscription(impl) :
         /\ gwCalls' = (gwCalls (+)
                SetToBag({GatewayCall("cancelSubscription", loc[c].sub.payment.id, c, ok)}))
                (+) (IF ok THEN EmptyBag
                     ELSE SetToBag({GatewayCall("cancelSubscription",
                                                loc[c].sub.payment.id, c, TRUE)}))
         /\ pc' = [pc EXCEPT ![c] = "cancel_save"]
         /\ loc' = [loc EXCEPT ![c].sub = Subscription_cancel(loc[c].sub)]
         /\ UNCHANGED res
    /\ UNCHANGED <<subs, orders, redeemCalls, events, call, entVars, auxVars>>

CancelCancelSubscription_Swallow(c) ==
    /\ pc[c] = "cancel_cancelSubscription"
    /\ \E impl \in Gateways : \E ok \in Payment_cancelSubscription(impl) :
         /\ gwCalls' = gwCalls (+)
                SetToBag({GatewayCall("cancelSubscription", loc[c].sub.payment.id, c, ok)})
         /\ pc' = [pc EXCEPT ![c] = "cancel_save"]
         /\ loc' = [loc EXCEPT ![c].sub = Subscription_cancel(loc[c].sub)]
         /\ UNCHANGED res
    /\ UNCHANGED <<subs, orders, redeemCalls, events, call, entVars, auxVars>>

\* line 79 resolves or rejects; line 80 cancels, line 81 calls save
CancelCancelSubscription(c) ==
    /\ pc[c] = "cancel_cancelSubscription"
    /\ \E impl \in Gateways : \E ok \in Payment_cancelSubscription(impl) :
         /\ gwCalls' = gwCalls (+)
                SetToBag({GatewayCall("cancelSubscription", loc[c].sub.payment.id, c, ok)})
         /\ IF ok
            THEN /\ pc' = [pc EXCEPT ![c] = "cancel_save"]
                 /\ loc' = [loc EXCEPT ![c].sub = Subscription_cancel(loc[c].sub)]
                 /\ UNCHANGED res
            ELSE /\ Settle(c, Thrown("GatewayFailure"))
                 /\ UNCHANGED loc
    /\ UNCHANGED <<subs, orders, redeemCalls, events, call, entVars, auxVars>>

\* The save of cancel (line 81) or of subscribe (line 33) resolves and the
\* call returns.  (subscribe never comes here: line 33 throws before save.)
SaveAndReturn(c) ==
    /\ pc[c] \in {"cancel_save", "subscribe_save"}
    /\ subs' = Subscriptions_save(subs, loc[c].sub)
    /\ Settle(c, Returned)
    /\ UNCHANGED <<orders, redeemCalls, events, gwCalls, call, loc, entVars, auxVars>>

----------------------------------------------------------------------------
\* Subscriptions.viewSubscription(id, forUser)

ViewCall(c, id, forUser) ==
    /\ CanStart(c)
    /\ Start(c, [NoCall EXCEPT !.op = "viewSubscription", !.id = id, !.user = forUser],
          "view_subscription")

\* line 58 resolves; line 59 asks for the Orders
ViewSubscription(c) ==
    /\ pc[c] = "view_subscription"
    /\ LET r == subscription(subs, call[c].id, call[c].user) IN
       IF ~r.ok
       THEN /\ Settle(c, Thrown(r.err))
            /\ UNCHANGED loc
       ELSE /\ pc' = [pc EXCEPT ![c] = "view_findByPaymentOrder"]
            /\ loc' = [loc EXCEPT ![c].sub = r.sub, ![c].readState = r.sub.state]
            /\ UNCHANGED res
    /\ UNCHANGED <<subs, orders, redeemCalls, events, gwCalls, call, entVars, auxVars>>

ViewFindByPaymentOrder_All(c) ==
    /\ pc[c] = "view_findByPaymentOrder"
    /\ loc' = [loc EXCEPT ![c].history = orders]
    /\ pc' = [pc EXCEPT ![c] = "view_find"]
    /\ UNCHANGED <<subs, orders, redeemCalls, events, gwCalls, call, res, entVars, auxVars>>

\* line 59 resolves; line 60 asks for the plan
ViewFindByPaymentOrder(c) ==
    /\ pc[c] = "view_findByPaymentOrder"
    /\ loc' = [loc EXCEPT ![c].history =
                   Orders_findByPaymentOrder(orders, loc[c].sub.payment.id)]
    /\ pc' = [pc EXCEPT ![c] = "view_find"]
    /\ UNCHANGED <<subs, orders, redeemCalls, events, gwCalls, call, res, entVars, auxVars>>

\* line 60 resolves; lines 62-66 return the view
ViewFind(c) ==
    /\ pc[c] = "view_find"
    /\ LET plan == SubscriptionPlans_find(loc[c].sub.planId) IN
       IF plan = Nothing
       THEN /\ Settle(c, Thrown("PlanNotFound"))
            /\ UNCHANGED loc
       ELSE /\ Settle(c, Returned)
            /\ loc' = [loc EXCEPT ![c].plan = plan]
    /\ UNCHANGED <<subs, orders, redeemCalls, events, gwCalls, call, entVars, auxVars>>

----------------------------------------------------------------------------
\* The service

Next ==
    \E c \in CallIds :
        \/ \E p \in Packages, u \in Users : SubscribeCall(c, p, u)
        \/ SubscribeFindByPackage(c)
        \/ SubscribePaymentSubscribe(c)
        \/ \E a \in PaymentIds, t \in TransactionIds : RedeemCall(c, a, t)
        \/ RedeemFindByPayment(c)
        \/ RedeemFindPlan(c)
        \/ RedeemFindPlanFails(c)
        \/ RedeemSave(c)
        \/ RedeemSaveFails(c)
        \/ RedeemSaveOrder(c)
        \/ RedeemRedeem(c)
        \/ RedeemRedeemFails(c)
        \/ RedeemEmitFails(c)
        \/ \E id \in SubscriptionIds, u \in Users : CancelCall(c, id, u)
        \/ CancelSubscription(c)
        \/ CancelCancelSubscription(c)
        \/ SaveAndReturn(c)
        \/ \E id \in SubscriptionIds, u \in Users : ViewCall(c, id, u)
        \/ ViewSubscription(c)
        \/ ViewFindByPaymentOrder(c)
        \/ ViewFind(c)

Spec == Init /\ [][Next]_vars

----------------------------------------------------------------------------
\* The Order entity on its own: any caller, any sequence of its operations

EntityPayments ==
    {OrderPayment(a, t) : a \in {"AG1", "AG2"}, t \in {Undefined} \cup TransactionIds}

EntityReference == Reference("st1", "d1", "P1")

Operation(op, i, ok, arg) ==
    [op |-> op, slot |-> i, ok |-> ok,
     paidBefore |-> (ents[i] # Nothing /\ ents[i].status = OrderStatus_PAID),
     arg |-> arg]

EntityCreate(i, payment) ==
    /\ ents[i] = Nothing
    /\ ents' = [ents EXCEPT ![i] = Order_create(OrderId(i), payment, EntityReference)]
    /\ entLast' = Operation("create", i, TRUE, payment)
    /\ UNCHANGED <<svcVars, auxVars>>

EntityCreateDeferred(i) ==
    /\ ents[i] = Nothing
    /\ ents' = [ents EXCEPT ![i] = Order_createDeferred(OrderId(i), EntityReference)]
    /\ entLast' = Operation("createDeferred", i, TRUE, Nothing)
    /\ UNCHANGED <<svcVars, auxVars>>

EntityPaymentIntent(i, payment) ==
    /\ ents[i] # Nothing
    /\ LET r == Order_paymentIntent(ents[i], payment) IN
       /\ ents' = [ents EXCEPT ![i] = r.order]
       /\ entLast' = Operation("paymentIntent", i, r.ok, payment)
    /\ UNCHANGED <<svcVars, auxVars>>

EntityPay(i, transactionId) ==
    /\ ents[i] # Nothing
    /\ LET r == Order_pay(ents[i], transactionId) IN
       /\ ents' = [ents EXCEPT ![i] = r.order]
       /\ entLast' = Operation("pay", i, r.ok, [transactionId |-> transactionId])
    /\ UNCHANGED <<svcVars, auxVars>>

OrderNext ==
    \E i \in OrderSlots :
        \/ \E payment \in EntityPayments : EntityCreate(i, payment)
        \/ EntityCreateDeferred(i)
        \/ \E payment \in EntityPayments : EntityPaymentIntent(i, payment)
        \/ \E t \in TransactionIds : EntityPay(i, t)

\* The entity-level specification starts with no Order and an empty store.
OrderInit == Init /\ subs = {}

OrderSpec == OrderInit /\ [][OrderNext]_vars

----------------------------------------------------------------------------
\* The Subscription entity on its own: any caller, any sequence of its methods

SubscriptionOperation(op, ok, value) == [op |-> op, ok |-> ok, value |-> value]

SubscriptionEntityCreate(plan, user) ==
    /\ sent = Nothing
    /\ LET created == Subscription_create(SubscriptionId(1), plan, JsUser(user)) IN
       /\ sent' = created.sub
       /\ sentLast' = SubscriptionOperation("create", created.ok, "-")
    /\ UNCHANGED <<svcVars, entVars, refVars, planVars, engVars, webVars, cfgVars>>

SubscriptionEntityAgreeBilling(paymentId) ==
    /\ sent # Nothing
    /\ sent' = Subscription_agreeBilling(sent, paymentId)
    /\ sentLast' = SubscriptionOperation("agreeBilling", TRUE, "-")
    /\ UNCHANGED <<svcVars, entVars, refVars, planVars, engVars, webVars, cfgVars>>

SubscriptionEntityPay(transactionId, p) ==
    /\ sent # Nothing
    /\ LET paid == Subscription_pay(sent, OrderId(1), transactionId, "paypal", p) IN
       /\ sent' = paid.sub
       /\ sentLast' = SubscriptionOperation("pay", TRUE, paid.order.id)
    /\ UNCHANGED <<svcVars, entVars, refVars, planVars, engVars, webVars, cfgVars>>

SubscriptionEntityCancel ==
    /\ sent # Nothing
    /\ sent' = Subscription_cancel(sent)
    /\ sentLast' = SubscriptionOperation("cancel", TRUE, "-")
    /\ UNCHANGED <<svcVars, entVars, refVars, planVars, engVars, webVars, cfgVars>>

SubscriptionEntityAbortLink ==
    /\ sent # Nothing
    /\ LET r == Subscription_abortLink(sent) IN
       sentLast' = SubscriptionOperation("abortLink", r.ok, r.value)
    /\ UNCHANGED <<sent, svcVars, entVars, refVars, planVars, engVars, webVars, cfgVars>>

SubscriptionEntityIsActive ==
    /\ sent # Nothing
    /\ sentLast' = SubscriptionOperation("isActive", TRUE,
                        IF Subscription_isActive(sent) THEN "true" ELSE "false")
    /\ UNCHANGED <<sent, svcVars, entVars, refVars, planVars, engVars, webVars, cfgVars>>

SubscriptionNext ==
    \/ \E plan \in PlanStore, user \in Users : SubscriptionEntityCreate(plan, user)
    \/ \E paymentId \in PaymentIds : SubscriptionEntityAgreeBilling(paymentId)
    \/ \E t \in TransactionIds, p \in Packages : SubscriptionEntityPay(t, p)
    \/ SubscriptionEntityCancel
    \/ SubscriptionEntityAbortLink
    \/ SubscriptionEntityIsActive

SubscriptionInit == Init /\ subs = {}

SubscriptionSpec == SubscriptionInit /\ [][SubscriptionNext]_vars

----------------------------------------------------------------------------
\* Reference: construction and asString(), for any steamId, discordId, package

RefSteamIds == {Nothing, JsString(""), JsString("st1"), JsString("st2")}
RefDiscordIds == {JsString("d1"), JsString("d2")}

\* Packages as configured: a numeric id and further fields
RefPackages ==
    {[id |-> 1, name |-> "VIP"], [id |-> 2, name |-> "Donor"],
     [id |-> 1, name |-> "VIP (renamed)"]}

ReferenceNew(i, steamId, discordId, p) ==
    /\ refs[i] = Nothing
    /\ refs' = [refs EXCEPT ![i] = Reference(steamId, discordId, p)]
    /\ UNCHANGED <<refOut, svcVars, entVars, subVars, planVars, engVars, webVars, cfgVars>>

ReferenceAsString(i) ==
    /\ refs[i] # Nothing
    /\ refOut' = [refOut EXCEPT ![i] = Reference_asString(refs[i])]
    /\ UNCHANGED <<refs, svcVars, entVars, subVars, planVars, engVars, webVars, cfgVars>>

ReferenceNext ==
    \E i \in RefSlots :
        \/ \E steamId \in RefSteamIds, discordId \in RefDiscordIds, p \in RefPackages :
              ReferenceNew(i, steamId, discordId, p)
        \/ ReferenceAsString(i)

ReferenceInit == Init /\ subs = {}

ReferenceSpec == ReferenceInit /\ [][ReferenceNext]_vars

----------------------------------------------------------------------------
\* SubscriptionPlan reconciliation: persistSubscription called for the
\* configured packages, without a plan or with the plan it returned last

PersistPackages ==
    {[id |-> i, name |-> "Package " \o ToString(i) \o " for " \o ToString(a),
      price |-> [currency |-> "USD", amount |-> a]] : i \in PackageIds, a \in {5, 10}}

PersistCall(impl, p, sp) ==
    /\ seq < MaxPersist
    /\ seq' = seq + 1
    /\ LET r == persistSubscription(impl, catalogue, p, sp, seq') IN
       /\ catalogue' = r.provider
       /\ persistLast' = [impl |-> impl, p |-> p, given |-> sp, result |-> r.plan,
                           requests |-> r.requests]
       /\ chains' = [chains EXCEPT ![<<impl, p.id>>] =
                        [first |-> IF sp = Nothing THEN r.plan ELSE @.first,
                         last |-> r.plan]]
    /\ UNCHANGED <<svcVars, entVars, subVars, refVars, engVars, webVars, cfgVars>>

\* persistSubscription(p): the caller hands in no plan for the package
PersistNew(impl, p) ==
    PersistCall(impl, p, Nothing)

\* persistSubscription(p, result): the plan of the previous call is handed in
PersistExisting(impl, p) ==
    /\ chains[<<impl, p.id>>] # Nothing
    /\ PersistCall(impl, p, chains[<<impl, p.id>>].last)

PersistNext ==
    \E impl \in Gateways, p \in PersistPackages :
        \/ PersistNew(impl, p)
        \/ PersistExisting(impl, p)

PersistInit == Init /\ subs = {}

PersistSpec == PersistInit /\ [][PersistNext]_vars

----------------------------------------------------------------------------
\* The redeem engine on its own: redeem(order, target) called any number of
\* times for the same Order, a call failing part-way included

Date(t) == "date-" \o ToString(t)

EngineOrder(i, user, p) ==
    /\ eorders[i] = Nothing
    /\ eorders' = [eorders EXCEPT ![i] =
                     Order_pay(Order_create(OrderId(i), OrderPayment("AG1", Undefined),
                                            Reference(user.steam.id, user.discord.id, p)),
                               "TX1").order]
    /\ UNCHANGED <<grants, ecalls, clock, svcVars, entVars, subVars, refVars, planVars, webVars, cfgVars>>

EngineTarget(order) == RedeemTarget(order.reference.steamId, order.reference.discordId)

\* redeem(order, target) runs to the end
EngineRedeem(i) ==
    /\ eorders[i] # Nothing
    /\ clock < MaxRedeems
    /\ clock' = clock + 1
    /\ grants' = Redeem_grant(grants, eorders[i], EngineTarget(eorders[i]),
                              Perks(eorders[i].reference.p))
    /\ eorders' = [eorders EXCEPT ![i] = Redeem_stamp(@, Date(clock'))]
    /\ ecalls' = [ecalls EXCEPT ![i] =
                    [runs |-> @.runs + 1, completed |-> @.completed + 1,
                     firstAt |-> IF @.completed = 0 THEN Date(clock') ELSE @.firstAt]]
    /\ UNCHANGED <<svcVars, entVars, subVars, refVars, planVars, webVars, cfgVars>>

\* redeem(order, target) fails after granting some of the perks
EngineRedeemFails(i) ==
    /\ eorders[i] # Nothing
    /\ clock < MaxRedeems
    /\ clock' = clock + 1
    /\ \E done \in (SUBSET Perks(eorders[i].reference.p)) \ {Perks(eorders[i].reference.p)} :
          grants' = Redeem_grant(grants, eorders[i], EngineTarget(eorders[i]), done)
    /\ ecalls' = [ecalls EXCEPT ![i].runs = @ + 1]
    /\ UNCHANGED <<eorders, svcVars, entVars, subVars, refVars, planVars, webVars, cfgVars>>

EngineNext ==
    \E i \in OrderSlots :
        \/ \E user \in Users, p \in {"P1", "P2"} : EngineOrder(i, user, p)
        \/ EngineRedeem(i)
        \/ EngineRedeemFails(i)

EngineInit == Init /\ subs = {}

EngineSpec == EngineInit /\ [][EngineNext]_vars

----------------------------------------------------------------------------
\* adapter/controller/start.ts: POST /selectPackage, any number of requests
\* from several browser sessions against the one AppConfig

Digit == {"0", "1", "2", "3", "4", "5", "6", "7", "8", "9"}
DigitValue(ch) == CHOOSE n \in 0..9 : ToString(n) = ch

NaN == [nan |-> TRUE, value |-> 0]
Number(n) == [nan |-> FALSE, value |-> n]

RECURSIVE LeadingDigits(_)
LeadingDigits(s) ==
    IF s = <<>> \/ Head(s) \notin Digit THEN <<>>
    ELSE <<Head(s)>> \o LeadingDigits(Tail(s))

RECURSIVE DecimalValue(_)
DecimalValue(ds) ==
    IF ds = <<>> THEN 0
    ELSE 10 * DecimalValue(SubSeq(ds, 1, Len(ds) - 1)) + DigitValue(ds[Len(ds)])

Signed(s) == s # <<>> /\ Head(s) \in {"-", "+"}
Unsigned(s) == IF Signed(s) THEN Tail(s) ELSE s

\* parseInt(string): an optional sign and the digits up to the first
\* character that is none; NaN when there is no digit
parseInt(s) ==
    LET ds == LeadingDigits(Unsigned(s))
    IN  IF ds = <<>> THEN NaN
        ELSE Number(IF Head(s) = "-" THEN 0 - DecimalValue(ds) ELSE DecimalValue(ds))

\* string.replace(from, to) with a string pattern: the first occurrence only
RECURSIVE String_replace(_, _, _)
String_replace(s, from, to) ==
    IF s = <<>> THEN <<>>
    ELSE IF Head(s) = from THEN <<to>> \o Tail(s)
    ELSE <<Head(s)>> \o String_replace(Tail(s), from, to)

\* A decimal literal: digits with at most one point among them
DecimalLiteral(s) ==
    /\ \A i \in 1..Len(s) : s[i] \in Digit \cup {"."}
    /\ \E i \in 1..Len(s) : s[i] \in Digit
    /\ Cardinality({i \in 1..Len(s) : s[i] = "."}) <= 1

\* Math.sign(string): the string converted to a number, then its sign
Math_sign(s) ==
    IF s = <<>> THEN Number(0)
    ELSE IF ~DecimalLiteral(Unsigned(s)) THEN NaN
    ELSE IF \A i \in 1..Len(Unsigned(s)) : Unsigned(s)[i] \in {"0", "."} THEN Number(0)
    ELSE IF Head(s) = "-" THEN Number(0 - 1)
    ELSE Number(1)

\* An Error whose message is `message` followed by the characters of `detail`
Error(message, detail) == [name |-> "Error", message |-> message, detail |-> detail]
TypeError(message) == [name |-> "TypeError", message |-> message, detail |-> <<>>]

\* req.body[`price-${pack.id}`]
BodyPrice(body, pack) == body.price[pack.id]

\* StartController.price: the Price it returns, the error it throws, and the
\* Package as the call leaves it (`price` is the Package's own Price object)
price(body, pack) ==
    IF BodyPrice(body, pack) # Absent
    THEN IF pack.price.type = PriceType_FIXED
         THEN [error |-> Error("VariablePriceForFixedPackage", <<>>), result |-> Nothing,
               pack |-> pack]
         ELSE LET amount == String_replace(BodyPrice(body, pack), ",", ".")
              IN  IF Math_sign(amount) # Number(1)
                  THEN [error |-> Error("Invalid variable price detected: ", amount),
                        result |-> Nothing, pack |-> pack]
                  ELSE [error |-> NoError,
                        result |-> [pack.price EXCEPT !.amount = amount],
                        pack |-> [pack EXCEPT !.price.amount = amount]]
    ELSE [error |-> NoError, result |-> pack.price, pack |-> pack]

\* this.config.packages.find((p) => p.id === n): the index of the first match, 0 for undefined
Find(ps, n) ==
    IF n.nan \/ ~\E i \in DOMAIN ps : ps[i].id = n.value THEN 0
    ELSE CHOOSE i \in DOMAIN ps :
            /\ ps[i].id = n.value
            /\ \A j \in DOMAIN ps : ps[j].id = n.value => i <= j

\* What the request did: the package found, the session assigned, the
\* redirects sent and the error the handler's promise rejected with
Respond(b, body, found, stored, redirects, error) ==
    httpLast' = [browser |-> b, body |-> body, found |-> found, stored |-> stored,
                 redirects |-> redirects, error |-> error]

\* StartController.selectPackage, to the end of the request
selectPackage(b, body) ==
    LET selectedPackage == Find(packages, parseInt(body.package))
    IN  /\ IF selectedPackage = 0
           THEN \* redirected, and then selectedPackage.id of undefined is read
                /\ Respond(b, body, FALSE, FALSE, <<"/">>,
                           TypeError("Cannot read property 'id' of undefined"))
                /\ UNCHANGED <<packages, sessions>>
           ELSE LET r == price(body, packages[selectedPackage])
                IN  IF r.error = NoError
                    THEN /\ packages' = [packages EXCEPT ![selectedPackage] = r.pack]
                         /\ sessions' = [sessions EXCEPT ![b].selectedPackage =
                                           [id |-> packages[selectedPackage].id,
                                            price |-> r.result]]
                         /\ Respond(b, body, TRUE, TRUE, <<"/donate">>, NoError)
                    ELSE IF r.error.message = "VariablePriceForFixedPackage" /\ r.error.detail = <<>>
                    THEN /\ Respond(b, body, TRUE, FALSE, <<"/">>, NoError)
                         /\ UNCHANGED <<packages, sessions>>
                    ELSE /\ Respond(b, body, TRUE, FALSE, <<>>, r.error)
                         /\ UNCHANGED <<packages, sessions>>
        /\ UNCHANGED <<svcVars, entVars, subVars, refVars, planVars, engVars, cfgVars>>

\* The bodies a browser posts
PackageInputs == {Absent, <<"1">>, <<"2">>, <<"2", "x">>, <<"9">>}
PriceInputs == {Absent, <<"7">>, <<"7", ",", "5">>, <<"-", "3">>}
PriceFields == {1, 2}
Body(package, field, amount) ==
    [package |-> package, price |-> [i \in PriceFields |-> IF i = field THEN amount ELSE Absent]]
Bodies == {Body(k, i, a) : k \in PackageInputs, i \in PriceFields, a \in PriceInputs}

StartNext == \E b \in Browsers, body \in Bodies : selectPackage(b, body)

StartInit == Init /\ subs = {}

StartSpec == StartInit /\ [][StartNext]_vars

----------------------------------------------------------------------------
\* app-config.ts: parseConfig reads config.yml and awaits
\* YamlAppConfig.initialize, which awaits a promise that the Discord
\* client's 'ready' and 'error' listeners settle

PromisePending == "pending"
PromiseResolved == "resolved"
PromiseRejected == "rejected"

\* this.discord.bot?.token
HasBotToken(cfg) == cfg.discord.bot # Nothing /\ cfg.discord.bot.token # ""

\* this.packages.find((p) => p.perks.find((perk) => perk.type === 'DISCORD_ROLE'))
hasDiscordPerk(cfg) ==
    \E i \in DOMAIN cfg.packages :
        \E j \in DOMAIN cfg.packages[i].perks : cfg.packages[i].perks[j].type = "DISCORD_ROLE"

\* Lines 99-103: the notifier initialize ends with
Notifier(cfg) ==
    IF cfg.discord.notifications # Nothing /\ Len(cfg.discord.notifications.items) # 0
    THEN "DiscordNotifier"
    ELSE "NoopNotifier"

\* parseConfig up to `await intermediate.initialize()`, and initialize up to
\* its first await: with a bot token the client is created, both listeners
\* are registered and login is called; without one initialize ends at once
parseConfig(cfg) ==
    /\ yaml = Nothing
    /\ yaml' = cfg
    /\ IF HasBotToken(cfg)
       THEN /\ inner' = PromisePending
            /\ executor' = PromisePending
            /\ login' = PromisePending
            /\ initialize' = PromisePending
            /\ UNCHANGED notifier
       ELSE IF hasDiscordPerk(cfg)
       THEN /\ initialize' = PromiseRejected
            /\ UNCHANGED <<inner, executor, login, notifier>>
       ELSE /\ notifier' = Notifier(cfg)
            /\ initialize' = PromiseResolved
            /\ UNCHANGED <<inner, executor, login>>
    /\ UNCHANGED <<emitted, svcVars, entVars, subVars, refVars, planVars, engVars, webVars>>

\* The login attempt ends: client.login(token) resolves or rejects
LoginSettles(outcome) ==
    /\ login = PromisePending
    /\ login' = outcome
    /\ UNCHANGED <<yaml, initialize, inner, executor, emitted, notifier,
                   svcVars, entVars, subVars, refVars, planVars, engVars, webVars>>

\* Line 94: the async executor resumes after `await login(...)`.  It returns,
\* or it rejects with login's error; either way that settles only the
\* executor's own promise, which the Promise constructor ignores.
ExecutorResumes ==
    /\ executor = PromisePending
    /\ login # PromisePending
    /\ executor' = login
    /\ UNCHANGED <<yaml, initialize, inner, login, emitted, notifier,
                   svcVars, entVars, subVars, refVars, planVars, engVars, webVars>>

\* resolve(undefined) / reject(error): a settled promise stays as it is
SettlePromise(promise, outcome) == IF promise = PromisePending THEN outcome ELSE promise

\* The client emits 'ready' or 'error'; the listener of lines 87-93 runs
ClientEmits(ev) ==
    /\ inner # NotCalled
    /\ Len(emitted) < MaxEvents
    /\ emitted' = Append(emitted, ev)
    /\ inner' = SettlePromise(inner, IF ev = "ready" THEN PromiseResolved
                                     ELSE PromiseRejected)
    /\ UNCHANGED <<yaml, initialize, executor, login, notifier,
                   svcVars, entVars, subVars, refVars, planVars, engVars, webVars>>

\* Line 86: initialize resumes once the awaited promise has settled, and
\* ends on lines 99-103 or rejects with the promise's error
InitializeResumes ==
    /\ initialize = PromisePending
    /\ inner \in {PromiseResolved, PromiseRejected}
    /\ IF inner = PromiseResolved
       THEN /\ notifier' = Notifier(yaml)
            /\ initialize' = PromiseResolved
       ELSE /\ initialize' = PromiseRejected
            /\ UNCHANGED notifier
    /\ UNCHANGED <<yaml, inner, executor, login, emitted,
                   svcVars, entVars, subVars, refVars, planVars, engVars, webVars>>

\* The contents of config.yml
BotInputs == {Nothing, [token |-> ""], [token |-> "token"]}
PerkInputs == {<<>>, <<[type |-> "PRIORITY_QUEUE"]>>,
               <<[type |-> "FREETEXT_ONLY"], [type |-> "DISCORD_ROLE"]>>}
NotificationInputs == {Nothing, [items |-> <<>>], [items |-> <<"donation">>]}
Configs ==
    {[discord |-> [bot |-> b, notifications |-> n],
      packages |-> <<[perks |-> p1], [perks |-> p2]>>] :
        b \in BotInputs, n \in NotificationInputs, p1 \in PerkInputs, p2 \in PerkInputs}

InitializeNext ==
    \/ \E cfg \in Configs : parseConfig(cfg)
    \/ \E outcome \in {PromiseResolved, PromiseRejected} : LoginSettles(outcome)
    \/ ExecutorResumes
    \/ \E ev \in {"ready", "error"} : ClientEmits(ev)
    \/ InitializeResumes

InitializeInit == Init /\ subs = {}

\* A continuation whose promise has settled is run; a client whose login
\* succeeded becomes ready.  Nothing obliges the client to emit 'error'.
InitializeFairness ==
    /\ WF_vars(ExecutorResumes)
    /\ WF_vars(InitializeResumes)
    /\ WF_vars(login = PromiseResolved /\ ClientEmits("ready"))

InitializeSpec == InitializeInit /\ [][InitializeNext]_vars /\ InitializeFairness

----------------------------------------------------------------------------
\* Properties of the service

IsRedeem(c) == call[c].op = "redeemSubscriptionPayment"
IsCancel(c) == call[c].op = "cancel"
IsView(c) == call[c].op = "viewSubscription"
IsSubscribe(c) == call[c].op = "subscribe"
Steps(c) == pc'[c] # pc[c]

OrdersOfCycle(paymentId, transactionId) ==
    {o \in orders : o.payment # Nothing /\ o.payment.id = paymentId
                                        /\ o.payment.transactionId = transactionId}

\* C1: however many redeemSubscriptionPayment deliveries there are for one
\* paymentId and one transactionId, sequential or interleaved, at most one
\* Order is persisted for that pair.
C1_AtMostOneOrderPerCycle ==
    \A a \in PaymentIds, t \in TransactionIds :
        Cardinality(OrdersOfCycle(a, t)) <= 1

\* C2: CANCELLED is terminal: a persisted Subscription whose state is
\* CANCELLED is never persisted as PENDING or ACTIVE afterwards.
C2_CancelledIsTerminal ==
    [][\A s \in subs : s.state = "CANCELLED" =>
          \A n \in subs' : n.id = s.id => n.state = "CANCELLED"]_vars

\* C3: no lost update between cancel and redeemSubscriptionPayment: when a
\* cancel has returned and a redeemSubscriptionPayment that read the same
\* Subscription before it was CANCELLED has finished too, the persisted
\* state is CANCELLED (no stale ACTIVE write came after the cancel's).
C3_NoLostUpdate ==
    \A c, r \in CallIds :
        ( /\ IsCancel(c) /\ res[c] = Returned
          /\ IsRedeem(r) /\ pc[r] = "done"
          /\ loc[r].sub # Nothing /\ loc[r].sub.id = call[c].id
          /\ loc[r].readState # "CANCELLED" )
        => Subscriptions_find(subs, call[c].id).state = "CANCELLED"

\* C4: subscribe(package, user), once the gateway has returned the agreement,
\* returns the gateway's {id, approvalLink} and has persisted one PENDING
\* Subscription of the package's plan and the user's steam and discord ids
\* whose payment.id is the agreement id.
C4_SubscribePersistsPending ==
    \A c \in CallIds :
        (IsSubscribe(c) /\ pc[c] = "done" /\ loc[c].result # Nothing)
        => /\ res[c] = Returned
           /\ Cardinality({s \in subs :
                  /\ s.payment.id = loc[c].result.id
                  /\ s.state = "PENDING"
                  /\ s.planId = SubscriptionPlans_findByPackage(call[c].p).id
                  /\ s.user = [steamId |-> call[c].user.steam.id,
                               discordId |-> call[c].user.discord.id]}) = 1

\* The persisted Subscription a payment id belongs to.
PersistedByPayment(store, paymentId) ==
    CHOOSE s \in store : s.payment.id = paymentId

\* C5: the save of a redeemSubscriptionPayment(paymentId, tx) persists the
\* Subscription as ACTIVE, and when the call returns, the Order it returns is
\* a new persisted Order with payment {id: paymentId, transactionId: tx},
\* status PAID and reference (user.steamId, user.discordId, plan.basePackage)
\* of the persisted Subscription.
C5_RedeemPersistsActiveAndPaidOrder ==
    [][\A c \in CallIds :
        /\ (pc[c] = "redeem_save" /\ pc'[c] = "redeem_saveOrder")
           => Subscriptions_find(subs', loc[c].sub.id).state = "ACTIVE"
        /\ (pc[c] = "redeem_saveOrder" /\ Steps(c))
           => loc[c].order.id \notin {o.id : o \in orders}
        /\ (IsRedeem(c) /\ Steps(c) /\ res'[c] = Returned)
           => LET o == loc'[c].order
                  s == PersistedByPayment(subs', call[c].paymentId) IN
              /\ o \in orders'
              /\ o.payment = OrderPayment(call[c].paymentId, call[c].transactionId)
              /\ o.status = OrderStatus_PAID
              /\ o.reference = Reference(s.user.steamId, s.user.discordId,
                                         SubscriptionPlans_find(s.planId).basePackage)
      ]_vars

C5_Witness ==
    \E c \in CallIds : IsRedeem(c) /\ res[c] = Returned /\ loc[c].order \in orders

InvocationsOf(orderId) ==
    {x \in BagToSet(redeemCalls) : x.order = orderId}

\* C6: a redeemSubscriptionPayment call that returned has invoked the redeem
\* engine exactly once, with the Order it created and the target {steamId,
\* discordId} of the Subscription's user; no Order is passed to the engine
\* more than once.
C6_RedeemEngineOncePerOrder ==
    /\ \A c \in CallIds :
        (IsRedeem(c) /\ res[c] = Returned)
        => LET s == PersistedByPayment(subs, call[c].paymentId)
               x == [order |-> OrderId(c),
                     target |-> RedeemTarget(s.user.steamId, s.user.discordId)] IN
           /\ loc[c].order.id = OrderId(c)
           /\ InvocationsOf(OrderId(c)) = {x}
           /\ CopiesIn(x, redeemCalls) = 1
    /\ \A x \in BagToSet(redeemCalls) :
           /\ CopiesIn(x, redeemCalls) = 1
           /\ Cardinality(InvocationsOf(x.order)) = 1

C6_Witness ==
    \E c, d \in CallIds :
        /\ c # d
        /\ IsRedeem(c) /\ res[c] = Returned
        /\ IsRedeem(d) /\ res[d] = Returned
        /\ call[c].paymentId = call[d].paymentId

\* C7: redeemSubscriptionPayment for a paymentId no persisted Subscription
\* has fails with SubscriptionNotFound at the lookup; the call persists no
\* Order, changes no Subscription, invokes no redemption and emits no event.
C7_UnknownPaymentRejected ==
    [][\A c \in CallIds :
        /\ ( /\ pc[c] = "redeem_findByPayment" /\ Steps(c)
             /\ Subscriptions_findByPayment(subs, call[c].paymentId) = {} )
           => /\ pc'[c] = "done"
              /\ res'[c] = Thrown("SubscriptionNotFound")
              /\ UNCHANGED <<subs, orders, redeemCalls, events, gwCalls>>
        /\ (IsRedeem(c) /\ res'[c] = Thrown("SubscriptionNotFound"))
           => /\ \A o \in orders' : o.id # OrderId(c)
              /\ \A x \in BagToSet(redeemCalls') : x.order # OrderId(c)
              /\ \A e \in BagToSet(events') : e.order # OrderId(c)
      ]_vars

C7_Witness ==
    \E c \in CallIds :
        /\ IsRedeem(c) /\ res[c] = Thrown("SubscriptionNotFound")
        /\ subs # {}

SuccessfulCancellations(c) ==
    {g \in BagToSet(gwCalls) : g.op = "cancelSubscription" /\ g.by = c /\ g.ok}

\* C8: cancel persists CANCELLED only after the gateway's cancelSubscription
\* has succeeded for the call; when the gateway call fails, the call settles
\* with that error and the persisted Subscriptions are as before.
C8_GatewayBeforeCancelled ==
    [][\A c \in CallIds :
        /\ (pc[c] = "cancel_cancelSubscription" /\ pc'[c] = "done")
           => /\ res'[c] = Thrown("GatewayFailure")
              /\ subs' = subs
        /\ (pc[c] = "cancel_cancelSubscription" /\ Steps(c))
           => /\ subs' = subs
              /\ Cardinality({g \in BagToSet(gwCalls') :
                      g.op = "cancelSubscription" /\ g.by = c}) = 1
        /\ (IsCancel(c) /\ Steps(c) /\ subs' # subs)
           => /\ SuccessfulCancellations(c) # {}
              /\ \A g \in SuccessfulCancellations(c) : g.arg = loc[c].sub.payment.id
      ]_vars

C8_Witness ==
    \E c \in CallIds :
        /\ IsCancel(c) /\ res[c] = Thrown("GatewayFailure")
        /\ Subscriptions_find(subs, call[c].id) # Nothing
        /\ Subscriptions_find(subs, call[c].id).state # "CANCELLED"

NotOwned(c) ==
    LET s == Subscriptions_find(subs, call[c].id) IN
    s = Nothing \/ s.user.discordId # call[c].user.discord.id

\* C9: viewSubscription and cancel fail with SubscriptionNotFound when the
\* Subscription belongs to another discord id, with the same outcome as for
\* an id that does not exist; the gateway is not called, nothing changes.
C9_ForeignLooksNotFound ==
    [][\A c \in CallIds :
        ( /\ pc[c] \in {"view_subscription", "cancel_subscription"}
          /\ Steps(c) /\ NotOwned(c) )
        => /\ pc'[c] = "done"
           /\ res'[c] = Thrown("SubscriptionNotFound")
           /\ loc'[c] = NoLocals
           /\ UNCHANGED <<subs, orders, redeemCalls, events, gwCalls>>
      ]_vars

C9_Witness ==
    \E c, d \in CallIds :
        /\ call[c].op \in {"viewSubscription", "cancel"}
        /\ call[d].op = call[c].op
        /\ Subscriptions_find(subs, call[c].id) # Nothing
        /\ Subscriptions_find(subs, call[c].id).user.discordId # call[c].user.discord.id
        /\ Subscriptions_find(subs, call[d].id) = Nothing
        /\ res[c] = Thrown("SubscriptionNotFound")
        /\ res[d] = res[c]
        /\ loc[d] = loc[c]

----------------------------------------------------------------------------
\* Properties of the Order entity

\* C10: over any sequence of create, createDeferred, paymentIntent and pay,
\* failing ones included, an Order that is PAID stays PAID.
C10_PaidNeverBackToCreated ==
    [][\A i \in OrderSlots :
        (ents[i] # Nothing /\ ents[i].status = OrderStatus_PAID)
        => (ents'[i] # Nothing /\ ents'[i].status = OrderStatus_PAID)
      ]_vars

C10_Witness ==
    /\ entLast.paidBefore
    /\ entLast.op = "paymentIntent"
    /\ ~entLast.ok
    /\ ents[entLast.slot].status = OrderStatus_PAID

\* An Order entity operation `op` has just acted on slot i.
Acted(op, i) ==
    /\ entLast'.op = op /\ entLast'.slot = i
    /\ <<ents, entLast>>' # <<ents, entLast>>

\* C11: pay(tx) on an Order with no payment bound fails and leaves status
\* CREATED and payment null; on an Order with a payment bound it succeeds,
\* sets payment.transactionId to tx and status to PAID, keeping payment.id.
C11_PayNeedsPaymentIntent ==
    [][\A i \in OrderSlots :
        Acted("pay", i) =>
            IF ents[i].payment = Nothing
            THEN /\ ~entLast'.ok
                 /\ ents'[i] = ents[i]
                 /\ ents'[i].status = OrderStatus_CREATED
                 /\ ents'[i].payment = Nothing
            ELSE /\ entLast'.ok
                 /\ ents'[i].status = OrderStatus_PAID
                 /\ ents'[i].payment =
                        OrderPayment(ents[i].payment.id, entLast'.arg.transactionId)
      ]_vars

C11_Witness ==
    /\ entLast.op = "pay"
    /\ ~entLast.ok
    /\ ents[entLast.slot].payment = Nothing
    /\ ents[entLast.slot].status = OrderStatus_CREATED

\* C12: paymentIntent(payment) succeeds only on an Order whose payment is
\* null and then binds it; on an Order with a payment bound (by create or by
\* an earlier paymentIntent) it fails and leaves payment and status as they
\* were: a bound payment is never replaced by paymentIntent.
C12_PaymentIntentBindsOnce ==
    [][\A i \in OrderSlots :
        Acted("paymentIntent", i) =>
            IF ents[i].payment = Nothing
            THEN /\ entLast'.ok
                 /\ ents'[i] = [ents[i] EXCEPT !.payment = entLast'.arg]
            ELSE /\ ~entLast'.ok
                 /\ ents'[i].payment = ents[i].payment
                 /\ ents'[i].status = ents[i].status
      ]_vars

C12_Witness ==
    /\ entLast.op = "paymentIntent"
    /\ ~entLast.ok
    /\ ents[entLast.slot].payment # Nothing
    /\ ents[entLast.slot].payment # entLast.arg

GatewayCallsBy(c) == {g \in BagToSet(gwCalls) : g.by = c}

\* C16: subscribe for a package with no persisted SubscriptionPlan fails with
\* PlanNotFound at the plan lookup; the gateway's subscribe is not called for
\* that call and no Subscription is persisted by it.
C16_SubscribeWithoutPlan ==
    [][\A c \in CallIds :
        /\ ( /\ pc[c] = "subscribe_findByPackage" /\ Steps(c)
             /\ SubscriptionPlans_findByPackage(call[c].p) = Nothing )
           => /\ pc'[c] = "done"
              /\ res'[c] = Thrown("PlanNotFound")
              /\ UNCHANGED <<subs, orders, redeemCalls, events, gwCalls>>
        /\ (IsSubscribe(c) /\ res'[c] = Thrown("PlanNotFound"))
           => /\ GatewayCallsBy(c)' = {}
              /\ \A s \in subs' : s.id # SubscriptionId(c)
      ]_vars

C16_Witness ==
    \E c \in CallIds :
        /\ IsSubscribe(c) /\ res[c] = Thrown("PlanNotFound")
        /\ SubscriptionPlans_findByPackage(call[c].p) = Nothing
        /\ \E d \in CallIds : d # c /\ GatewayCallsBy(d) # {}

FailedBeforeOrder ==
    {Thrown("SubscriptionNotFound"), Thrown("PlanNotFound"),
     Thrown("PlanLookupFailed"), Thrown("SaveFailed")}

\* C20: when redeemSubscriptionPayment fails at the subscription lookup, at
\* the plan lookup or at persisting the ACTIVE subscription, the failing step
\* persists no Order, invokes no redeem engine and emits no event, and the
\* call has persisted no Order, invoked the engine for none and emitted no
\* event for one.
C20_FailureBeforeOrderLeavesNoTrace ==
    [][\A c \in CallIds :
        /\ ( /\ pc[c] \in {"redeem_findByPayment", "redeem_findPlan", "redeem_save"}
             /\ pc'[c] = "done" )
           => /\ res'[c] \in FailedBeforeOrder
              /\ UNCHANGED <<orders, redeemCalls, events>>
        /\ (IsRedeem(c) /\ res'[c] \in FailedBeforeOrder)
           => /\ \A o \in orders' : o.id # OrderId(c)
              /\ \A x \in BagToSet(redeemCalls') : x.order # OrderId(c)
              /\ \A e \in BagToSet(events') : e.order # OrderId(c)
      ]_vars

C20_Witness ==
    \E c \in CallIds :
        /\ IsRedeem(c) /\ res[c] = Thrown("SaveFailed")
        /\ \E d \in CallIds : d # c /\ res[d] = Thrown("PlanLookupFailed")

\* A Subscription entity method `op` has just been called.
Called(op) == sentLast'.op = op /\ <<sent, sentLast>>' # <<sent, sentLast>>

\* C13: Subscription.abortLink succeeds exactly when the state is PENDING and
\* then returns the link /subscriptions/<id>/abort; in state ACTIVE or
\* CANCELLED it fails with SubscriptionNotPending; it never changes the
\* Subscription.
C13_AbortLinkOnlyWhilePending ==
    [][Called("abortLink") =>
        /\ sent' = sent
        /\ sentLast'.ok <=> (sent.state = "PENDING")
        /\ sentLast'.ok =>
              sentLast'.value = PublicUrl \o "/subscriptions/" \o sent.id \o "/abort"
        /\ sent.state \in {"ACTIVE", "CANCELLED"} =>
              (~sentLast'.ok /\ sentLast'.value = "SubscriptionNotPending")
      ]_vars

C13_Witness ==
    /\ sentLast.op = "abortLink"
    /\ ~sentLast.ok
    /\ sent.state = "ACTIVE"

\* C19: Subscription.isActive() returns true exactly when the state is PENDING
\* or ACTIVE and false when it is CANCELLED, and does not change the
\* Subscription.
C19_IsActiveUnlessCancelled ==
    [][Called("isActive") =>
        /\ sent' = sent
        /\ (sentLast'.value = "true") <=> (sent.state \in {"PENDING", "ACTIVE"})
        /\ (sentLast'.value = "false") <=> (sent.state = "CANCELLED")
      ]_vars

C19_Witness ==
    /\ sentLast.op = "isActive"
    /\ sentLast.value = "true"
    /\ sent.state = "PENDING"

\* C18: Reference.asString returns "<id>#<packageId>", where <id> is the
\* steamId when one is present (neither null nor empty) and the discordId
\* otherwise; References with the same steamId, discordId and package id
\* return the same string, whatever else differs.
C18_AsStringFormat ==
    /\ \A i \in RefSlots :
          refOut[i] # NotCalled =>
             LET r == refs[i]
                 suffix == "#" \o ToString(r.p.id) IN
             /\ r.steamId \in {JsString("st1"), JsString("st2")}
                   => refOut[i] = r.steamId.s \o suffix
             /\ r.steamId \in {Nothing, JsString("")}
                   => refOut[i] = r.discordId.s \o suffix
    /\ \A i, j \in RefSlots :
          ( /\ refOut[i] # NotCalled /\ refOut[j] # NotCalled
            /\ refs[i].steamId = refs[j].steamId
            /\ refs[i].discordId = refs[j].discordId
            /\ refs[i].p.id = refs[j].p.id )
          => refOut[i] = refOut[j]

C18_Witness ==
    \E i, j \in RefSlots :
        /\ refOut[i] = "st1#1" /\ refOut[j] = "d2#1"
        /\ refs[j].steamId = Nothing
        /\ refs[i].p # refs[j].p

\* C14: for every package and every gateway implementation, persistSubscription
\* called first without a plan and then, any number of times, with the plan it
\* last returned, returns a SubscriptionPlan whose logical id is the id of the
\* first result.
C14_LogicalIdStable ==
    \A k \in Gateways \X PackageIds :
        chains[k] # Nothing => chains[k].last.id = chains[k].first.id

PlanIdsAt(pv) == {pl.id : pl \in pv.plans}

\* C15: when the PayPal adapter's persistSubscription is given an existing
\* plan carrying a provider plan id, PayPal holds the same plans afterwards,
\* the plan of that id carries the package's current price, and the returned
\* SubscriptionPlan has the existing plan's payment.planId and logical id;
\* when no plan is given exactly one provider plan is created and returned.
C15_ExistingPlanUpdatedInPlace ==
    [][(seq' # seq /\ persistLast'.impl = "paypal") =>
        LET given == persistLast'.given
            result == persistLast'.result
            p == persistLast'.p IN
        IF CarriesPlanId(given)
        THEN /\ PlanIdsAt(catalogue') = PlanIdsAt(catalogue)
             /\ result.payment.planId = given.payment.planId
             /\ result.id = given.id
             /\ \E pl \in catalogue'.plans :
                   pl.id = given.payment.planId /\ pl.price = p.price
        ELSE /\ PlanIdsAt(catalogue') = PlanIdsAt(catalogue) \cup {result.payment.planId}
             /\ result.payment.planId \notin PlanIdsAt(catalogue)
      ]_vars

C15_Witness ==
    /\ persistLast.impl = "paypal"
    /\ CarriesPlanId(persistLast.given)
    /\ persistLast.given.basePackage.price # persistLast.p.price
    /\ persistLast.result.payment.planId = persistLast.given.payment.planId

GrantsOf(order) == {g \in BagToSet(grants) : g.order = order.id}

\* C17: however often the redeem engine has run for an Order, once a run has
\* gone to the end the target holds each perk of the Order's package exactly
\* once and redeemedAt is the time of the first such run, as after a single
\* run; no perk is ever granted twice for one Order.
C17_RedeemTwiceSameAsOnce ==
    \A i \in OrderSlots :
        eorders[i] # Nothing =>
            LET order == eorders[i] IN
            /\ \A g \in GrantsOf(order) : CopiesIn(g, grants) = 1
            /\ ecalls[i].completed >= 1 =>
                  /\ GrantsOf(order) =
                        {Grant(order, EngineTarget(order), perk) :
                            perk \in Perks(order.reference.p)}
                  /\ order.redeemedAt = ecalls[i].firstAt
            /\ ecalls[i].completed = 0 => order.redeemedAt = NullDate

C17_Witness ==
    \E i \in OrderSlots :
        /\ ecalls[i].completed = 2
        /\ ecalls[i].runs = 3
        /\ eorders[i].redeemedAt # Date(clock)

OrderOf(store, c) == CHOOSE o \in store : o.id = OrderId(c)
PersistedOrderOf(store, c) == \E o \in store : o.id = OrderId(c)
EmittedFor(log, c) == \E e \in BagToSet(log) : e.order = OrderId(c)
InvokedFor(log, c) == \E x \in BagToSet(log) : x.order = OrderId(c)

\* C21: in redeemSubscriptionPayment the Subscription is persisted as ACTIVE
\* before the Order is persisted, the Order is persisted as PAID before the
\* redeem engine is invoked, and the event is emitted only once the engine has
\* redeemed the Order; when the engine fails the persisted Order stays PAID
\* with redeemedAt unset and no event is emitted for it.
C21_RedeemStepOrder ==
    [][\A c \in CallIds :
        /\ (pc'[c] = "redeem_saveOrder" /\ Steps(c))
           => /\ pc[c] = "redeem_save"
              /\ Subscriptions_find(subs', loc[c].sub.id).state = "ACTIVE"
              /\ ~PersistedOrderOf(orders', c)
        /\ (PersistedOrderOf(orders', c) /\ ~PersistedOrderOf(orders, c))
           => /\ pc[c] = "redeem_saveOrder"
              /\ OrderOf(orders', c).status = OrderStatus_PAID
              /\ ~InvokedFor(redeemCalls', c) /\ ~EmittedFor(events', c)
        /\ (InvokedFor(redeemCalls', c) /\ ~InvokedFor(redeemCalls, c))
           => /\ pc[c] = "redeem_redeem"
              /\ PersistedOrderOf(orders, c)
              /\ OrderOf(orders, c).status = OrderStatus_PAID
        /\ (EmittedFor(events', c) /\ ~EmittedFor(events, c))
           => /\ InvokedFor(redeemCalls', c)
              /\ OrderOf(orders', c).redeemedAt # NullDate
        /\ (IsRedeem(c) /\ res'[c] = Thrown("RedeemFailure"))
           => /\ PersistedOrderOf(orders', c)
              /\ OrderOf(orders', c).status = OrderStatus_PAID
              /\ OrderOf(orders', c).redeemedAt = NullDate
              /\ ~EmittedFor(events', c)
      ]_vars

C21_Witness ==
    \E c \in CallIds :
        /\ IsRedeem(c) /\ res[c] = Thrown("RedeemFailure")
        /\ PersistedOrderOf(orders, c)
        /\ OrderOf(orders, c).redeemedAt = NullDate
        /\ Subscriptions_find(subs, loc[c].sub.id).state = "ACTIVE"

\* C22: a failure raised while the successfulSubscriptionExecution event is
\* emitted does not fail redeemSubscriptionPayment: a call whose Order the
\* engine has redeemed returns that Order.
C22_EmitFailureSwallowed ==
    \A c \in CallIds :
        ( /\ IsRedeem(c) /\ pc[c] = "done"
          /\ PersistedOrderOf(orders, c)
          /\ OrderOf(orders, c).redeemedAt # NullDate )
        => res[c] = Returned

GatewayCallsOf(log, c) == {g \in BagToSet(log) : g.by = c}

\* C23: every invocation of subscribe or cancel calls the payment gateway at
\* most once; when that call fails, the step that sees the failure ends the
\* invocation with the gateway's error and persists nothing, so the failure
\* reaches the caller and is not retried.
C23_GatewayFailurePropagated ==
    [][\A c \in CallIds :
        /\ Cardinality(GatewayCallsOf(gwCalls', c)) <= 1
        /\ \A g \in GatewayCallsOf(gwCalls', c) : CopiesIn(g, gwCalls') = 1
        /\ \A g \in GatewayCallsOf(gwCalls', c) :
              ~g.ok =>
                 /\ pc'[c] = "done"
                 /\ res'[c] \in {Thrown("GatewayFailure"), Thrown("TypeError")}
                 /\ g \notin GatewayCallsOf(gwCalls, c) => UNCHANGED <<subs, orders>>
                 /\ \A s \in subs' : s.id # SubscriptionId(c)
        /\ (pc[c] = "done" /\ res[c].status = "error"
              /\ (IsCancel(c) \/ IsSubscribe(c)) /\ subs' # subs)
           => \E d \in CallIds : d # c /\ Steps(d)
      ]_vars

C23_Witness ==
    \E c, d \in CallIds :
        /\ IsCancel(c) /\ res[c] = Thrown("GatewayFailure")
        /\ GatewayCallsOf(gwCalls, c) # {}
        /\ Subscriptions_find(subs, call[c].id).state # "CANCELLED"
        /\ IsSubscribe(d) /\ GatewayCallsOf(gwCalls, d) # {}
        /\ res[d].status = "error"

\* C24: in every Order state, status PAID implies a bound payment with a
\* transactionId; an Order's payment is null only if createDeferred made it
\* so, and it stays null only until a paymentIntent succeeds.
C24_PaidHasPayment ==
    /\ [](\A i \in OrderSlots :
            (ents[i] # Nothing /\ ents[i].status = OrderStatus_PAID)
            => /\ ents[i].payment # Nothing
               /\ ents[i].payment.transactionId \in TransactionIds)
    /\ [][\A i \in OrderSlots :
            (ents'[i] # Nothing /\ ents'[i].payment = Nothing)
            => \/ (ents[i] = Nothing /\ Acted("createDeferred", i))
               \/ ( /\ ents[i] # Nothing /\ ents[i].payment = Nothing
                    /\ ~(Acted("paymentIntent", i) /\ entLast'.ok) )
         ]_vars

C24_Witness ==
    \E i, j \in OrderSlots :
        /\ ents[i] # Nothing /\ ents[j] # Nothing
        /\ ents[i].status = OrderStatus_PAID /\ ents[i].payment.transactionId = "TX1"
        /\ ents[j].payment = Nothing /\ ents[j].status = OrderStatus_CREATED
        /\ entLast.op = "pay" /\ entLast.slot = j

\* C25: pay(tx2) on an Order that is already PAID succeeds again, leaves the
\* status PAID and replaces payment.transactionId by tx2.
C25_PayAgainReplacesTransaction ==
    [][\A i \in OrderSlots :
        (Acted("pay", i) /\ ents[i].status = OrderStatus_PAID)
        => /\ entLast'.ok
           /\ ents'[i].status = OrderStatus_PAID
           /\ ents'[i].payment.transactionId = entLast'.arg.transactionId
           /\ ents'[i].payment.id = ents[i].payment.id
      ]_vars

C25_Witness ==
    \E i, j \in OrderSlots :
        /\ i # j /\ ents[i] # Nothing /\ ents[j] # Nothing
        /\ entLast.op = "pay" /\ entLast.slot = i /\ entLast.ok /\ entLast.paidBefore
        /\ ents[i].payment.transactionId = "TX2"
        /\ ents[j].status = OrderStatus_PAID /\ ents[j].payment.transactionId = "TX1"

\* The Orders the calls hold or have persisted
OrdersInPlay == orders \cup {loc[c].order : c \in {d \in CallIds : loc[d].order # Nothing}}

\* The Order entity operations, applied to an Order, leave redeemedAt alone,
\* and the two factories create Orders with redeemedAt null.
EntityOperationsKeepRedeemedAt(o) ==
    /\ Order_create(o.id, o.payment, o.reference).redeemedAt = NullDate
    /\ Order_createDeferred(o.id, o.reference).redeemedAt = NullDate
    /\ \A payment \in EntityPayments :
          /\ Order_paymentIntent(o, payment).order.redeemedAt = o.redeemedAt
          /\ Order_paymentIntent(Order_createDeferred(o.id, o.reference),
                                 payment).order.redeemedAt = NullDate
    /\ \A t \in TransactionIds :
          Order_pay(o, t).order.redeemedAt = o.redeemedAt

\* C26: redeemedAt is null on every Order that create, createDeferred,
\* paymentIntent and pay produce, and in redeemSubscriptionPayment an Order's
\* redeemedAt is set, in the call's own object or in the repository, only by
\* the step in which the redeem engine runs for that Order.
C26_OnlyEngineSetsRedeemedAt ==
    /\ [](\A o \in OrdersInPlay : EntityOperationsKeepRedeemedAt(o))
    /\ [][\A c \in CallIds :
            /\ ( /\ loc'[c].order # Nothing /\ loc'[c].order.redeemedAt # NullDate
                 /\ loc'[c].order # loc[c].order )
               => /\ pc[c] = "redeem_redeem"
                  /\ InvokedFor(redeemCalls', c) /\ ~InvokedFor(redeemCalls, c)
            /\ ( /\ PersistedOrderOf(orders', c)
                 /\ OrderOf(orders', c).redeemedAt # NullDate
                 /\ ~(PersistedOrderOf(orders, c)
                        /\ OrderOf(orders, c).redeemedAt # NullDate) )
               => /\ pc[c] = "redeem_redeem"
                  /\ InvokedFor(redeemCalls', c) /\ ~InvokedFor(redeemCalls, c)
            /\ (pc'[c] = "redeem_redeem" /\ Steps(c))
               => /\ OrderOf(orders', c).redeemedAt = NullDate
                  /\ loc'[c].order.redeemedAt = NullDate
         ]_vars

C26_Witness ==
    \E c, d \in CallIds :
        /\ PersistedOrderOf(orders, c) /\ OrderOf(orders, c).redeemedAt # NullDate
        /\ pc[d] = "redeem_redeem"
        /\ OrderOf(orders, d).redeemedAt = NullDate
        /\ OrderOf(orders, d).status = OrderStatus_PAID

\* C27: once agreeBilling has set a Subscription's payment.id, no later
\* operation on the Subscription changes it, and no two persisted
\* Subscriptions have the same payment.id.
C27_PaymentIdBoundOnce ==
    /\ [][(sent # Nothing /\ sent.payment.id # Undefined)
            => sent'.payment.id = sent.payment.id]_vars
    /\ [](\A s, t \in subs : s.payment.id = t.payment.id => s.id = t.id)

ViewSteps == {"view_subscription", "view_findByPaymentOrder", "view_find"}

OrdersOfAgreement(store, paymentId) ==
    {o \in store : o.payment # Nothing /\ o.payment.id = paymentId}

RedeemsOfAgreement(paymentId, outcomes) ==
    {d \in CallIds : /\ IsRedeem(d) /\ call[d].paymentId = paymentId
                     /\ pc[d] = "done" /\ res[d] \in outcomes}

Quiescent(c) == \A d \in CallIds \ {c} : pc[d] \in {"idle", "done"}

\* What viewSubscription does for the owner, whichever redeem calls count:
\* the history it reads is the set of persisted Orders of the Subscription's
\* payment.id, as many as the redeem calls with one of `outcomes` when no
\* other call is under way; it returns the owner's Subscription, its plan and
\* that history; no view step changes persisted state or calls the gateway.
ViewReturnsHistory(outcomes) ==
    \A c \in CallIds :
        /\ (pc[c] = "view_findByPaymentOrder" /\ Steps(c))
           => /\ loc'[c].history = OrdersOfAgreement(orders, loc[c].sub.payment.id)
              /\ Quiescent(c) =>
                    Cardinality(loc'[c].history) =
                    Cardinality(RedeemsOfAgreement(loc[c].sub.payment.id, outcomes))
        /\ (pc[c] \in ViewSteps /\ Steps(c))
           => UNCHANGED <<subs, orders, redeemCalls, events, gwCalls>>
        /\ (pc[c] \in ViewSteps /\ Steps(c) /\ res'[c] = Returned)
           => /\ loc'[c].sub.id = call[c].id
              /\ loc'[c].sub.user.discordId = call[c].user.discord.id
              /\ loc'[c].plan = SubscriptionPlans_find(loc'[c].sub.planId)
              /\ loc'[c].history = loc[c].history

\* C28 (as claimed): for the owner viewSubscription returns the Subscription,
\* its plan and as history exactly the persisted Orders of the Subscription's
\* payment.id, one per successful redeemSubscriptionPayment for that
\* agreement; it changes no persisted state and calls no gateway operation.
C28_HistoryOnePerSuccessfulRedeem ==
    [][ViewReturnsHistory({Returned})]_vars

\* C28 (amended): as above, but the history holds one Order per
\* redeemSubscriptionPayment call for that agreement that persisted its Order,
\* the calls that failed afterwards in the redeem engine or while emitting
\* the event included.
C28_HistoryOnePerPersistedOrder ==
    [][ViewReturnsHistory({Returned, Thrown("RedeemFailure"), Thrown("EmitFailure")})]_vars

C28_Witness ==
    \E c, d \in CallIds :
        /\ IsView(c) /\ res[c] = Returned
        /\ loc[c].history # {}
        /\ loc[c].history = OrdersOfAgreement(orders, loc[c].sub.payment.id)
        /\ IsRedeem(d) /\ res[d] = Thrown("RedeemFailure")

RequestsNamed(req) ==
    {persistLast'.requests[k] : k \in {j \in DOMAIN persistLast'.requests :
                                          persistLast'.requests[j].req = req}}

\* C29: the PayPal adapter's persistSubscription first looks the product up
\* under the id "DONATE-<package id>"; when PayPal holds it, it is updated
\* (it carries the package's name afterwards) and none is created; when not,
\* it is created and none is updated; the returned SubscriptionPlan's
\* payment.productId is that product's id either way.
C29_ProductUpsertByDonateId ==
    [][(seq' # seq /\ persistLast'.impl = "paypal") =>
        LET p == persistLast'.p
            id == "DONATE-" \o ToString(p.id)
            found == \E pr \in catalogue.products : pr.id = id IN
        /\ persistLast'.requests[1] = Request("GetProduct", id)
        /\ persistLast'.result.payment.productId = id
        /\ [id |-> id, name |-> p.name] \in catalogue'.products
        /\ IF found
           THEN /\ RequestsNamed("UpdateProduct") = {Request("UpdateProduct", id)}
                /\ RequestsNamed("CreateProduct") = {}
                /\ {pr.id : pr \in catalogue'.products} = {pr.id : pr \in catalogue.products}
                /\ Cardinality(catalogue'.products) = Cardinality(catalogue.products)
           ELSE /\ RequestsNamed("CreateProduct") = {Request("CreateProduct", id)}
                /\ RequestsNamed("UpdateProduct") = {}
                /\ catalogue'.products = catalogue.products \cup {[id |-> id, name |-> p.name]}
      ]_vars

C29_Witness ==
    /\ persistLast.impl = "paypal"
    /\ persistLast.given = Nothing
    /\ Request("UpdateProduct", "DONATE-1") \in
          {persistLast.requests[k] : k \in DOMAIN persistLast.requests}
    /\ persistLast.result.payment.productId = "DONATE-1"
    /\ \E pr \in catalogue.products : pr.id = "DONATE-2"

\* A Subscription without its state
Identity(s) == [id |-> s.id, planId |-> s.planId, payment |-> s.payment, user |-> s.user]

\* C30: whatever cancel and redeemSubscriptionPayment calls have run, every
\* persisted Subscription has the id, planId, payment.id and user it was
\* created with and bound to, and no step changes any of them: only the state
\* field differs.
C30_OnlyStateChanges ==
    /\ [](\A s \in subs : \E i \in InitialSubscriptions : Identity(s) = Identity(i))
    /\ [][{Identity(s) : s \in subs'} = {Identity(s) : s \in subs}]_vars

C30_Witness ==
    \E s, t \in subs :
        /\ s.state = "CANCELLED" /\ t.state = "ACTIVE"
        /\ \E c, d \in CallIds :
              /\ IsCancel(c) /\ res[c] = Returned /\ call[c].id = s.id
              /\ IsRedeem(d) /\ pc[d] = "done" /\ call[d].paymentId = t.payment.id

----------------------------------------------------------------------------
\* Properties of the start controller

\* The requests that named a configured package and sent no price for it
TookConfiguredPrice(req) ==
    /\ req.found
    /\ req.error = NoError
    /\ req.redirects = <<"/donate">>
    /\ BodyPrice(req.body, ConfiguredPackages[Find(ConfiguredPackages,
                                                   parseInt(req.body.package))]) = Absent

\* C31: after any sequence of selectPackage requests every package of
\* config.packages has the price amount config.yml gave it, and a request
\* that sends no price of its own stores the configured amount in its session.
C31_ConfiguredPricesKept ==
    /\ \A i \in DOMAIN packages :
          packages[i].price.amount = ConfiguredPackages[i].price.amount
    /\ TookConfiguredPrice(httpLast) =>
          LET stored == sessions[httpLast.browser].selectedPackage
          IN  stored.price.amount =
                ConfiguredPackages[Find(ConfiguredPackages, Number(stored.id))].price.amount

\* C32: a selectPackage request whose package id matches no configured
\* package redirects to "/" exactly once, leaves the session without a
\* selectedPackage it did not have, and raises no error.
C32_UnknownPackageRedirectsHome ==
    (httpLast # NoRequest /\ ~httpLast.found) =>
        /\ httpLast.redirects = <<"/">>
        /\ ~httpLast.stored
        /\ httpLast.error = NoError

----------------------------------------------------------------------------
\* Properties of the configuration

LoginCompleted ==
    \/ login \in {PromiseResolved, PromiseRejected}
    \/ \E i \in DOMAIN emitted : emitted[i] = "error"

InitializeSettled == initialize \in {PromiseResolved, PromiseRejected}

\* C33: with a Discord bot token configured, once the client's login attempt
\* has completed (login resolved, login rejected, or an 'error' event was
\* emitted) initialize eventually resolves or rejects.
C33_InitializeSettles == LoginCompleted ~> InitializeSettled

====
